---- MODULE Spec2Model ----
(***************************************************************************)
(* OCRByMe: PDF -> page images -> vision-model OCR -> Markdown.            *)
(*                                                                         *)
(* The module models, from the Python sources under src/:                  *)
(*   - utils/retry.py      retry_on_error.wrapper   (SpecRetry)            *)
(*   - core/ocr_client.py  ocr_image, ocr_images_batch (SpecBatch)         *)
(*   - mcp_server.py, cli.py  parse_page_range      (SpecParse)            *)
(*   - core/image_manager.py extract_and_save_images (SpecImg)             *)
(*   - mcp_server.py pdf_to_markdown, cli.py main   (SpecRun)              *)
(* Durations are integers (seconds); text is a sequence of characters.     *)
(***************************************************************************)
EXTENDS Integers, Sequences, FiniteSets, TLC

\* ------------------------------------------------------------------------
\* Bounds of the model
\* ------------------------------------------------------------------------
MaxAttempts == 3

\* longest page-range expression, in characters, and largest page count
MaxExprLen == 5

MaxTotal == 3

\* most pieces (text runs, image references) a page's Markdown is built of
MaxSegs == 3

\* most images handed to one ocr_images_batch call
MaxImages == 3

\* most page results assembled into one document
MaxSections == 3

\* most pages of a PDF whose images are extracted
MaxPdfPages == 2

\* most images of one page, embedded objects or inline matches
MaxPageImages == 2

\* ------------------------------------------------------------------------
\* Python values
\* ------------------------------------------------------------------------
\* None, for the integer-valued optional attributes (retry_after, status_code,
\* first_page, last_page)
None == 0 - 1

\* bool(x) of an optional integer: None and 0 are falsy
Truthy(x) == x # None /\ x # 0

\* the exception classes that occur, with their bases (models/types.py and
\* the builtins): cls -> the set of classes an instance of cls is an instance of
Bases(cls) ==
    CASE cls = "RateLimitError" -> {"RateLimitError", "APIError", "OCRByMeError", "Exception"}
      [] cls = "APIError" -> {"APIError", "OCRByMeError", "Exception"}
      [] cls = "PDFProcessingError" -> {"PDFProcessingError", "OCRByMeError", "Exception"}
      [] cls = "ConfigurationError" -> {"ConfigurationError", "OCRByMeError", "Exception"}
      [] cls = "MarkdownGenerationError" -> {"MarkdownGenerationError", "OCRByMeError", "Exception"}
      [] cls = "KeyboardInterrupt" -> {"KeyboardInterrupt"}
      [] OTHER -> {cls, "Exception"}

\* isinstance(e, classes) for a tuple of classes, as in `except classes as e`
IsInstance(e, classes) == Bases(e.type) \cap classes # {}

\* an exception object: its class, the attributes the code reads, and the
\* identity of the raise (id: what the message says)
Exc(type, retry_after, status_code, id) ==
    [type |-> type, retry_after |-> retry_after, status_code |-> status_code, id |-> id]

NoExc == Exc("none", None, None, 0)

\* RateLimitError.__init__ sets status_code 429; APIError keeps the one given
RateLimitError(retry_after, id) == Exc("RateLimitError", retry_after, 429, id)

APIError(status_code, id) == Exc("APIError", None, status_code, id)

\* what one call of a function does: return a value or raise
Return(v) == [k |-> "return", value |-> v, exc |-> NoExc]

Raise(e) == [k |-> "raise", value |-> 0, exc |-> e]

VARIABLES
    \* retry_on_error(max_attempts, delay, backoff, exceptions) and one
    \* activation of its wrapper
    max_attempts, delay, backoff, exceptions,
    attempt, current_delay, rpc, ret, exc,
    \* the environment of the wrapper: what the wrapped function does on its
    \* k-th call (script), how often it was called, the time.sleep calls made
    script, calls, sleeps,
    \* one call of parse_page_range: which module's function (pfn), its
    \* arguments, its position, the list returned or the exception raised
    pfn, pages_str, total_pages, first_page, last_page, ppc, page_numbers, perr,
    \* one call of ImageManager.extract_and_save_images(markdown, page_num):
    \* the matches of DATA_URL_PATTERN.finditer, the number of matches handled
    \* (mi), whether each was saved (savedFlags), the locals of the method and
    \* the files under images/ (name -> payload written)
    markdown, page_num, matches, mi, savedFlags, processed_markdown, offset,
    saved_images, files, ipc,
    \* the QwenVLClient.ocr_image call in progress: the image it is for and the
    \* requests it has sent to the remote API
    cur_image, requests,
    \* one call of QwenVLClient.ocr_images_batch(image_paths): its argument,
    \* the number of images taken from it (bi), its results list, its position
    batch_paths, bi, results, bpc,
    \* one conversion run, cli.main or mcp_server.pdf_to_markdown (fe), against
    \* the core classes as shipped or as the test suite patches them (core):
    \* its position (pc), the extract-images flag, whether images/ was made,
    \* the rasterized pages (images), the staged files (image_paths), the
    \* temporary directory, the OCR client, the number of images taken by the
    \* loop (ri), ocr_results, whether extract_all_images ran, the Markdown
    \* file written (doc) and how the run ended (outcome)
    fe, core, pc, extract_images, images_dir, images, image_paths, temp_dir, ocr_client,
    ri, ocr_results, extracted, doc, outcome,
    \* the settings of the run: the API key of the environment, and the dpi
    \* and timeout arguments
    api_key, dpi, timeout,
    \* for each rasterized image, the pass through ImagePreprocessor.preprocess
    \* it has had: "none", or the profile ("enhanced", "identity")
    preprocessed,
    \* the image files of one run: whether the embedded and the inline images
    \* are extracted, len(doc) of the PDF, the number of page results, the
    \* position (xpc) and the pages done in the current loop (xpage), the
    \* mapping extract_all_images builds (all_images), the list
    \* extract_and_save_images_from_markdown_list builds (inline_images), the
    \* files under images/ (img_files) and the paths written over (overwritten)
    extract_embedded, extract_inline, pdf_len, n_results, xpc, xpage, all_images,
    inline_images, img_files, overwritten,
    \* one call of MarkdownGenerator._build_markdown(ocr_results, metadata,
    \* saved_images): the page bodies, the metadata, the time of the call, the
    \* lines built and the position
    md_results, md_metadata, md_now, md_lines, mdpc,
    \* one call of PromptTemplate.get_prompt(mode, custom_instruction) or
    \* PromptTemplate.from_config(mode_name): the method, its arguments and how
    \* the call ended
    prompt_fn, prompt_mode, prompt_custom, prompt_end

retryVars == <<max_attempts, delay, backoff, exceptions, attempt, current_delay,
               rpc, ret, exc, script, calls, sleeps>>

parseVars == <<pfn, pages_str, total_pages, first_page, last_page, ppc,
               page_numbers, perr>>

imgVars == <<markdown, page_num, matches, mi, savedFlags, processed_markdown, offset,
             saved_images, files, ipc>>

clientVars == <<cur_image, requests>>

batchVars == <<batch_paths, bi, results, bpc>>

\* the variables of parseVars a run leaves alone
parseRest == <<pfn, pages_str, first_page, last_page, ppc, perr>>

cfgVars == <<api_key, dpi, timeout>>

runVars ==
    <<fe, core, pc, extract_images, images_dir, images, image_paths, temp_dir, ocr_client,
      ri, ocr_results, extracted, doc, outcome, cfgVars, preprocessed>>

filesVars ==
    <<extract_embedded, extract_inline, pdf_len, n_results, xpc, xpage, all_images,
      inline_images, img_files, overwritten>>

buildVars == <<md_results, md_metadata, md_now, md_lines, mdpc>>

promptVars == <<prompt_fn, prompt_mode, prompt_custom, prompt_end>>

vars ==
    <<retryVars, parseVars, imgVars, clientVars, batchVars, runVars, filesVars, buildVars,
      promptVars>>

\* ------------------------------------------------------------------------
\* utils/retry.py: retry_on_error.wrapper
\* ------------------------------------------------------------------------
\* a handler that catches every Exception, whatever the tuple says
Caught_all(e, excs) == IsInstance(e, {"Exception"})

\* `except exceptions as e`
Caught(e, excs) == IsInstance(e, excs)

\* no attempt taken for the last one
IsLastAttempt_never(a, m) == FALSE

\* the last-attempt test with the attempt counted from 1
IsLastAttempt_early(a, m) == a + 1 = m - 1

\* the last-attempt test against max_attempts itself
IsLastAttempt_late(a, m) == a = m

\* `if attempt == max_attempts - 1`
IsLastAttempt(a, m) == a = m - 1

\* the running delay kept whatever the failure was
DelayAfter_noOverride(e, cur) == cur

\* the delay slept after a caught failure: retry_after of a RateLimitError
\* that carries one, else the running delay
DelayAfter(e, cur) ==
    IF IsInstance(e, {"RateLimitError"}) /\ Truthy(e.retry_after)
    THEN e.retry_after
    ELSE cur

\* the running delay not multiplied
Backoff_unchanged(cur, b) == cur

\* `current_delay += backoff`
Backoff_additive(cur, b) == cur + b

\* `current_delay *= backoff`
Backoff(cur, b) == cur * b

\* wrapper entered: current_delay = delay, first iteration of the loop
WrapperEnter(m, d, b, excs) ==
    /\ max_attempts' = m
    /\ delay' = d
    /\ backoff' = b
    /\ exceptions' = excs
    /\ attempt' = 0
    /\ current_delay' = d
    /\ rpc' = "call"
    /\ ret' = 0
    /\ exc' = NoExc
    /\ calls' = 0
    /\ sleeps' = <<>>

\* one iteration of the loop up to its return, raise or time.sleep, the
\* wrapped function doing o on this call
WrapperAttempt(o) ==
    /\ rpc = "call"
    /\ attempt < max_attempts
    /\ calls' = calls + 1
    /\ IF o.k = "return"
       THEN /\ rpc' = "returned"
            /\ ret' = o.value
            /\ UNCHANGED <<exc, current_delay>>
       ELSE IF ~Caught(o.exc, exceptions)
       THEN /\ rpc' = "raised"
            /\ exc' = o.exc
            /\ UNCHANGED <<ret, current_delay>>
       ELSE IF IsLastAttempt(attempt, max_attempts)
       THEN /\ rpc' = "raised"
            /\ exc' = o.exc
            /\ UNCHANGED <<ret, current_delay>>
       ELSE /\ rpc' = "sleep"
            /\ current_delay' = DelayAfter(o.exc, current_delay)
            /\ UNCHANGED <<ret, exc>>
    /\ UNCHANGED <<max_attempts, delay, backoff, exceptions, attempt, sleeps>>

\* time.sleep(current_delay); current_delay *= backoff; next iteration
WrapperSleep ==
    /\ rpc = "sleep"
    /\ sleeps' = Append(sleeps, current_delay)
    /\ current_delay' = Backoff(current_delay, backoff)
    /\ attempt' = attempt + 1
    /\ rpc' = "call"
    /\ UNCHANGED <<max_attempts, delay, backoff, exceptions, ret, exc, script, calls>>

\* the loop ran out of iterations: raise RuntimeError("不应该到达这里")
WrapperExhausted ==
    /\ rpc = "call"
    /\ attempt >= max_attempts
    /\ rpc' = "raised"
    /\ exc' = Exc("RuntimeError", None, None, 0)
    /\ UNCHANGED <<max_attempts, delay, backoff, exceptions, attempt, current_delay,
                   ret, script, calls, sleeps>>


\* ------------------------------------------------------------------------
\* mcp_server.py / cli.py: parse_page_range, on strings of characters
\* ------------------------------------------------------------------------
\* the digits expressions are written with here
Digits == {"0", "1", "3"}

\* the characters page-range expressions are made of
ExprChars == Digits \cup {",", "-", " "}

\* pages_str = None (an expression is a sequence of characters)
NoStr == <<"None">>

DigitVal(c) == CASE c = "0" -> 0 [] c = "1" -> 1 [] OTHER -> 3

\* s.split(sep): the pieces between the separators, empty pieces included
RECURSIVE Split(_, _)
Split(s, sep) ==
    IF \E i \in 1..Len(s) : s[i] = sep
    THEN LET i == CHOOSE j \in 1..Len(s) : s[j] = sep /\ \A h \in 1..(j - 1) : s[h] # sep
         IN  <<SubSeq(s, 1, i - 1)>> \o Split(SubSeq(s, i + 1, Len(s)), sep)
    ELSE <<s>>

\* s.strip(): leading and trailing blanks removed
RECURSIVE Strip(_)
Strip(s) ==
    IF s = <<>> THEN s
    ELSE IF s[1] = " " THEN Strip(Tail(s))
    ELSE IF s[Len(s)] = " " THEN Strip(SubSeq(s, 1, Len(s) - 1))
    ELSE s

\* int(s) raises ValueError unless s, blanks around it ignored, is a
\* non-empty run of digits
IntOk(s) == Strip(s) # <<>> /\ \A i \in 1..Len(Strip(s)) : Strip(s)[i] \in Digits

RECURSIVE DecimalVal(_)
DecimalVal(s) ==
    IF s = <<>> THEN 0
    ELSE 10 * DecimalVal(SubSeq(s, 1, Len(s) - 1)) + DigitVal(s[Len(s)])

int(s) == DecimalVal(Strip(s))

\* list(range(a, b + 1))
RangeList(a, b) == [i \in 1..(b - a + 1) |-> a + i - 1]

\* sorted(S) of a set of integers
RECURSIVE Sorted(_)
Sorted(S) ==
    IF S = {} THEN <<>>
    ELSE LET m == CHOOSE x \in S : \A y \in S : x <= y
         IN  <<m>> \o Sorted(S \ {m})

Elems(l) == { l[i] : i \in 1..Len(l) }

\* the filter with the upper bound excluded
InBounds_exclusive(p, total) == 1 <= p /\ p < total

\* `1 <= p <= total_pages`
InBounds(p, total) == 1 <= p /\ p <= total

\* the body of the loop for one (stripped) part: the pages it contributes, or
\* ValueError (unpacking other than two pieces, or int() of a non-number)
PartPages(part) ==
    IF \E i \in 1..Len(part) : part[i] = "-"
    THEN LET pieces == Split(part, "-")
         IN  IF Len(pieces) # 2 \/ ~IntOk(pieces[1]) \/ ~IntOk(pieces[2])
             THEN [ok |-> FALSE, pages |-> <<>>]
             ELSE [ok |-> TRUE, pages |-> RangeList(int(pieces[1]), int(pieces[2]))]
    ELSE IF ~IntOk(part) THEN [ok |-> FALSE, pages |-> <<>>]
    ELSE [ok |-> TRUE, pages |-> <<int(part)>>]

\* the loop over pages_str.split(","): page_numbers as extended part by part
RECURSIVE CollectPages(_)
CollectPages(parts) ==
    IF parts = <<>> THEN [ok |-> TRUE, pages |-> <<>>]
    ELSE LET head == PartPages(Strip(parts[1]))
             rest == CollectPages(Tail(parts))
         IN  IF head.ok /\ rest.ok
             THEN [ok |-> TRUE, pages |-> head.pages \o rest.pages]
             ELSE [ok |-> FALSE, pages |-> <<>>]

\* mcp_server.parse_page_range(pages_str, total_pages)
parse_page_range(str, total) ==
    IF str = NoStr \/ str = <<>>
    THEN [ok |-> TRUE, pages |-> RangeList(1, total)]
    ELSE LET collected == CollectPages(Split(str, ","))
         IN  IF ~collected.ok THEN [ok |-> FALSE, pages |-> <<>>]
             ELSE [ok |-> TRUE,
                   pages |-> Sorted({ q \in Elems(collected.pages) : InBounds(q, total) })]

\* cli.parse_page_range(pages_str, total_pages, first_page, last_page)
cli_parse_page_range(str, total, first, last) ==
    IF first # None /\ last # None
    THEN [ok |-> TRUE, pages |-> RangeList(first, last)]
    ELSE parse_page_range(str, total)

\* ------------------------------------------------------------------------
\* core/image_manager.py: ImageManager.extract_and_save_images
\* ------------------------------------------------------------------------
\* \w and [A-Za-z0-9+/=] of DATA_URL_PATTERN
Letters ==
    {"a", "b", "c", "d", "e", "f", "g", "h", "i", "j", "k", "l", "m", "n", "o", "p", "q",
     "r", "s", "t", "u", "v", "w", "x", "y", "z", "A", "B", "C", "D", "E", "F", "G", "H",
     "I", "J", "K", "L", "M", "N", "O", "P", "Q", "R", "S", "T", "U", "V", "W", "X", "Y",
     "Z"}

DecDigits == {"0", "1", "2", "3", "4", "5", "6", "7", "8", "9"}

WordChars == Letters \cup DecDigits \cup {"_"}

Base64Chars == Letters \cup DecDigits \cup {"+", "/", "="}

\* the literal pieces of DATA_URL_PATTERN and of the replacement
LitOpen == <<"!", "[">>

LitData == <<"]", "(", "d", "a", "t", "a", ":", "i", "m", "a", "g", "e", "/">>

LitBase64 == <<";", "b", "a", "s", "e", "6", "4", ",">>

LitImagesDir == <<"i", "m", "a", "g", "e", "s">>

\* s[i..] starts with lit (positions from 1)
HasAt(s, i, lit) ==
    /\ i + Len(lit) - 1 <= Len(s)
    /\ SubSeq(s, i, i + Len(lit) - 1) = lit

\* length of the longest run of characters of set starting at s[i]
RunLen(s, i, set) ==
    CHOOSE n \in 0..(Len(s) - i + 1) :
        /\ \A h \in 0..(n - 1) : s[i + h] \in set
        /\ (i + n > Len(s) \/ s[i + n] \notin set)

\* `\]\(data:image/(\w+);base64,([A-Za-z0-9+/=]+)\)` at s[j..]: the position
\* after the match, 0 when there is none (both runs are greedy and cannot be
\* shortened: `;` is no word character, `)` no base64 character)
TailEnd(s, j) ==
    IF ~HasAt(s, j, LitData) THEN 0
    ELSE LET f == j + Len(LitData)
             w == RunLen(s, f, WordChars)
         IN  IF w = 0 \/ ~HasAt(s, f + w, LitBase64) THEN 0
             ELSE LET q == f + w + Len(LitBase64)
                      r == RunLen(s, q, Base64Chars)
                  IN  IF r = 0 \/ ~HasAt(s, q + r, <<")">>) THEN 0
                      ELSE q + r + 1

\* where the lazy `(.*?)` of a match starting at s[i] may end: `.` matches
\* no newline
AltEnds(s, i) ==
    { j \in (i + 2)..Len(s) :
        /\ \A h \in (i + 2)..(j - 1) : s[h] # "\n"
        /\ TailEnd(s, j) # 0 }

\* DATA_URL_PATTERN.match at s[i]: span (as Python counts, from 0, end
\* excluded) and groups 1..3, or ok = FALSE
MatchAt(s, i) ==
    IF ~HasAt(s, i, LitOpen) \/ AltEnds(s, i) = {}
    THEN [ok |-> FALSE, start |-> 0, end |-> 0, alt |-> <<>>, fmt |-> <<>>, data |-> <<>>]
    ELSE LET j == CHOOSE x \in AltEnds(s, i) : \A y \in AltEnds(s, i) : x <= y
             f == j + Len(LitData)
             w == RunLen(s, f, WordChars)
             q == f + w + Len(LitBase64)
             e == TailEnd(s, j)
         IN  [ok |-> TRUE, start |-> i - 1, end |-> e - 1,
              alt |-> SubSeq(s, i + 2, j - 1),
              fmt |-> SubSeq(s, f, f + w - 1),
              data |-> SubSeq(s, q, e - 2)]

\* DATA_URL_PATTERN.finditer(s): the non-overlapping matches, left to right,
\* scanning from position i
RECURSIVE FindIter(_, _)
FindIter(s, i) ==
    IF i > Len(s) THEN <<>>
    ELSE LET m == MatchAt(s, i)
         IN  IF m.ok THEN <<m>> \o FindIter(s, m.end + 1)
             ELSE FindIter(s, i + 1)

\* base64.b64decode(data) of a run of base64 characters: binascii.Error unless
\* the length is a multiple of 4 with `=` only as the last one or two characters
B64DecodeOk(data) ==
    /\ Len(data) % 4 = 0
    /\ \A h \in 1..Len(data) : data[h] = "=" => h >= Len(data) - 1
    /\ (data[Len(data) - 1] = "=" => data[Len(data)] = "=")

\* str(n) of a non-negative integer
DigitChar(d) ==
    CASE d = 0 -> "0" [] d = 1 -> "1" [] d = 2 -> "2" [] d = 3 -> "3" [] d = 4 -> "4"
      [] d = 5 -> "5" [] d = 6 -> "6" [] d = 7 -> "7" [] d = 8 -> "8" [] OTHER -> "9"

RECURSIVE Str(_)
Str(n) == IF n < 10 THEN <<DigitChar(n)>> ELSE Str(n \div 10) \o <<DigitChar(n % 10)>>

\* f"page_{page_num}_img_{image_index}.{image_format}"
ImageFilename(p, idx, fmt) ==
    <<"p", "a", "g", "e", "_">> \o Str(p) \o <<"_", "i", "m", "g", "_">> \o Str(idx) \o <<".">> \o fmt

\* f'![{alt_text}]({self.images_dir.name}/{image_filename})'
Replacement(alt, filename) ==
    LitOpen \o alt \o <<"]", "(">> \o LitImagesDir \o <<"/">> \o filename \o <<")">>

\* Python's s[:i] and s[i:], a negative index counting from the end
SliceIndex(s, i) ==
    IF i < 0 THEN (IF i + Len(s) < 0 THEN 0 ELSE i + Len(s))
    ELSE (IF i > Len(s) THEN Len(s) ELSE i)

Upto(s, i) == SubSeq(s, 1, SliceIndex(s, i))

From(s, i) == SubSeq(s, SliceIndex(s, i) + 1, Len(s))

\* the replacement spliced in at the span of the original text
Splice_noOffset(text, repl, start, end, off) ==
    Upto(text, start) \o repl \o From(text, end)

\* processed_markdown[:adjusted_start] + replacement + processed_markdown[adjusted_end:]
Splice(text, repl, start, end, off) ==
    Upto(text, start + off) \o repl \o From(text, end + off)

\* `offset += len(replacement) - (end - start)`
OffsetAfter(off, repl, start, end) == off + Len(repl) - (end - start)

\* the index taken from the position of the match among all matches
ImageIndex_byMatch(saved, handled) == handled + 1

\* `image_index = len(saved_images) + 1`, with `handled` matches already seen
ImageIndex(saved, handled) == Len(saved) + 1

\* the body of the loop for the next match: saved and replaced, or (decoding
\* or write_bytes raising) logged and skipped
ImgHandleMatch(writeOk) ==
    LET m == matches[mi + 1]
        image_index == ImageIndex(saved_images, mi)
        image_filename == ImageFilename(page_num, image_index, m.fmt)
        replacement == Replacement(m.alt, image_filename)
    IN
    /\ ipc = "loop"
    /\ mi < Len(matches)
    /\ mi' = mi + 1
    /\ IF B64DecodeOk(m.data) /\ writeOk
       THEN /\ files' = [n \in DOMAIN files \cup {image_filename} |->
                           IF n = image_filename THEN m.data ELSE files[n]]
            /\ saved_images' = Append(saved_images, image_filename)
            /\ processed_markdown' =
                  Splice(processed_markdown, replacement, m.start, m.end, offset)
            /\ offset' = OffsetAfter(offset, replacement, m.start, m.end)
            /\ savedFlags' = Append(savedFlags, TRUE)
       ELSE /\ savedFlags' = Append(savedFlags, FALSE)
            /\ UNCHANGED <<files, saved_images, processed_markdown, offset>>
    /\ UNCHANGED <<markdown, page_num, matches, ipc>>

\* the loop is over: return processed_markdown, saved_images
ImgFinish ==
    /\ ipc = "loop"
    /\ mi = Len(matches)
    /\ ipc' = "returned"
    /\ UNCHANGED <<markdown, page_num, matches, mi, savedFlags, processed_markdown,
                   offset, saved_images, files>>

\* ------------------------------------------------------------------------
\* core/ocr_client.py: QwenVLClient.ocr_image and ocr_images_batch
\* ------------------------------------------------------------------------
\* the caller has the value or the exception: the frame of the wrapper is gone
WrapperLeave ==
    /\ rpc \in {"returned", "raised"}
    /\ max_attempts' = 0 /\ delay' = 0 /\ backoff' = 0 /\ exceptions' = {}
    /\ attempt' = 0 /\ current_delay' = 0 /\ rpc' = "idle" /\ ret' = 0 /\ exc' = NoExc
    /\ script' = <<>> /\ calls' = 0 /\ sleeps' = <<>>

OcrLeave == WrapperLeave /\ cur_image' = 0 /\ requests' = 0

\* what can happen in one execution of the body of ocr_image:
\*   ok            the API answers with text
\*   missing       image_path does not exist
\*   encode_error  Image.open fails in _encode_image_to_base64 (outside the try)
\*   rate_limited  the request raises, message with "429" or "rate"
\*   rate_and_auth the request raises, message matching both patterns
\*   auth          the request raises, message with "401" or "auth"
\*   api_error     the request raises with any other message
\*   empty         the API answers with empty content
\* (and, for a run at a terminal, "interrupt": Ctrl-C during the call)
OcrEvents ==
    {"ok", "missing", "encode_error", "rate_limited", "rate_and_auth", "auth",
     "api_error", "empty"}

\* the events in which chat.completions.create was called
SendsRequest(ev) == ev \notin {"missing", "encode_error"}

\* the decorator arguments of ocr_image
OcrMaxAttempts == 3

OcrDelay == 1

OcrBackoff == 2

OcrRetryOn == {"APIError", "RateLimitError"}

\* str(e) of the exception caught by `except Exception` in ocr_image, as far
\* as the handler looks at it: whether it has "429" or "rate", and whether it
\* has "401" or "auth" (the APIError of the empty answer has neither)
ErrorStr(ev) ==
    [rate |-> ev \in {"rate_limited", "rate_and_auth"},
     auth |-> ev \in {"auth", "rate_and_auth"}]

\* the auth pattern tested before the rate-limit pattern
Classify_authFirst(error_str, k) ==
    IF error_str.auth THEN APIError(401, k)
    ELSE IF error_str.rate THEN RateLimitError(5, k)
    ELSE APIError(None, k)

\* the handler of ocr_image: RateLimitError(retry_after=5), else
\* APIError(status_code=401), else APIError
Classify(error_str, k) ==
    IF error_str.rate THEN RateLimitError(5, k)
    ELSE IF error_str.auth THEN APIError(401, k)
    ELSE APIError(None, k)

\* the body of ocr_image for image img, on the k-th call of the wrapper:
\* the text of the image (named by the image), or the classified exception
ocr_image(ev, img, k) ==
    CASE ev = "ok" -> Return(img)
      [] ev = "missing" -> Raise(APIError(None, k))
      [] ev = "encode_error" -> Raise(Exc("OSError", None, None, k))
      [] ev = "interrupt" -> Raise(Exc("KeyboardInterrupt", None, None, k))
      [] OTHER -> Raise(Classify(ErrorStr(ev), k))

\* str(e): the message of an exception raised by ocr_image is fixed by the
\* raise statement, that is by the class and the status code, whichever
\* attempt raised it
MessageOf(e) == [type |-> e.type, status_code |-> e.status_code]

\* one entry of a results list: the text OCR returned for an image, or the
\* comment f"<!-- OCR 失败: {e} -->"
TextEntry(img) == [kind |-> "text", image |-> img, msg |-> MessageOf(NoExc)]

ErrorMarker(e) == [kind |-> "marker", image |-> 0, msg |-> MessageOf(e)]

\* the wrapper of ocr_image is entered for image img
OcrEnter(img) ==
    /\ WrapperEnter(OcrMaxAttempts, OcrDelay, OcrBackoff, OcrRetryOn)
    /\ script' = <<>>
    /\ cur_image' = img
    /\ requests' = 0

\* one execution of the body of ocr_image inside the wrapper
OcrAttempt(ev) ==
    /\ WrapperAttempt(ocr_image(ev, cur_image, calls + 1))
    /\ script' = Append(script, ev)
    /\ requests' = IF SendsRequest(ev) THEN requests + 1 ELSE requests
    /\ UNCHANGED cur_image

OcrSleep == WrapperSleep /\ UNCHANGED clientVars

\* the entry put at the head of the list
BatchAppend_atHead(res, state, img, e) ==
    IF state = "returned" THEN <<TextEntry(img)>> \o res ELSE <<ErrorMarker(e)>> \o res

\* the failed image left out of the list
BatchAppend_skipFailed(res, state, img, e) ==
    IF state = "returned" THEN Append(res, TextEntry(img)) ELSE res

\* `results.append(markdown)` / `results.append(f"<!-- OCR 失败: {e} -->")`:
\* the list after the call of ocr_image returned (the text of img) or raised e
BatchAppend(res, state, img, e) ==
    IF state = "returned" THEN Append(res, TextEntry(img)) ELSE Append(res, ErrorMarker(e))

\* ocr_images_batch takes the next image and calls ocr_image
BatchNextImage ==
    /\ bpc = "loop"
    /\ bi < Len(batch_paths)
    /\ bi' = bi + 1
    /\ bpc' = "ocr"
    /\ OcrEnter(batch_paths[bi + 1])
    /\ UNCHANGED <<batch_paths, results>>

\* the call returned or raised: the result or, for an Exception, the error
\* comment is appended; anything else propagates out of the batch
BatchCollect ==
    /\ bpc = "ocr"
    /\ rpc \in {"returned", "raised"}
    /\ IF rpc = "returned" \/ IsInstance(exc, {"Exception"})
       THEN /\ results' = BatchAppend(results, rpc, ret, exc)
            /\ bpc' = "loop"
       ELSE /\ bpc' = "raised"
            /\ UNCHANGED results
    /\ OcrLeave
    /\ UNCHANGED <<batch_paths, bi>>

\* `return results`
BatchFinish ==
    /\ bpc = "loop"
    /\ bi = Len(batch_paths)
    /\ bpc' = "returned"
    /\ UNCHANGED <<batch_paths, bi, results, retryVars, clientVars>>

\* ------------------------------------------------------------------------
\* core/prompt_templates.py: PromptTemplate
\* ------------------------------------------------------------------------
\* the values of the OCRMode enum
OCRModes == {"document", "academic", "table", "formula", "mixed"}

\* BASE_MARKDOWN
BASE_MARKDOWN == "qwenvl markdown"

\* mode strings tried: the five modes, four of them in other case, free
\* texts, and the empty string
ModeStrings ==
    OCRModes \cup {"ACADEMIC", "Table", "MIXED", "Document", "custom instruction here",
                   "qwenvl html", ""}

\* str.lower() on the strings tried
Lower(str) ==
    IF str = "ACADEMIC" THEN "academic"
    ELSE IF str = "Table" THEN "table"
    ELSE IF str = "MIXED" THEN "mixed"
    ELSE IF str = "Document" THEN "document"
    ELSE str

\* custom_instruction=None
NoInstruction == [given |-> FALSE, text |-> ""]

\* custom_instruction: None, the empty string, or a text
CustomInstructions ==
    {NoInstruction} \cup { [given |-> TRUE, text |-> t] : t \in {"", "mind the digits", "keep the footnotes"} }

\* `if custom_instruction:`
InstructionTruthy(custom_instruction) ==
    custom_instruction.given /\ custom_instruction.text # ""

\* OCRMode(value): the member of that value, or ValueError
OCRMode(value) ==
    IF value \in OCRModes THEN Return(value) ELSE Raise(Exc("ValueError", None, None, 0))

\* get_prompt(mode, custom_instruction): the template of the mode with
\* BASE_MARKDOWN filled in, then "\n\n额外要求:\n" and the custom
\* instruction if there is one; OCRMode(mode) raises for any other string
get_prompt(mode, custom_instruction) ==
    LET m == OCRMode(mode)
    IN  IF m.k = "raise" THEN m
        ELSE Return(<<"template", m.value, "base_mode", BASE_MARKDOWN>>
                    \o (IF InstructionTruthy(custom_instruction)
                        THEN <<"\n\n", "extra requirements:", "\n", custom_instruction.text>>
                        ELSE <<>>))

\* from_config(mode_name): get_prompt of the lower-cased name, and for a
\* ValueError BASE_MARKDOWN, a blank line and the name
from_config(mode_name) ==
    LET m == OCRMode(Lower(mode_name))
    IN  IF m.k = "raise" THEN Return(<<BASE_MARKDOWN, "\n\n", mode_name>>)
        ELSE get_prompt(m.value, NoInstruction)

\* the call has not ended
PromptPending == [k |-> "call", value |-> <<>>, exc |-> NoExc]

\* the call returns or raises
PromptCall ==
    /\ prompt_end = PromptPending
    /\ prompt_end' = IF prompt_fn = "get_prompt" THEN get_prompt(prompt_mode, prompt_custom)
                     ELSE from_config(prompt_mode)
    /\ UNCHANGED <<prompt_fn, prompt_mode, prompt_custom>>
    /\ UNCHANGED <<retryVars, parseVars, imgVars, clientVars, batchVars, runVars, filesVars,
                   buildVars>>

\* ------------------------------------------------------------------------
\* cli.py: main and mcp_server.py: pdf_to_markdown
\* ------------------------------------------------------------------------
\* PDFProcessor.__init__ accepts dpi from DpiMin to DpiMax
DpiMin == 72

DpiMax == 600

\* the words a front end puts before the error text are written in English:
\*   "config error" '配置错误', "PDF processing failed" 'PDF 处理失败',
\*   "API call failed" 'API 调用失败', "unknown error" '未知错误',
\*   "PDF file does not exist" 'PDF 文件不存在' (pdf_to_markdown, main);
\*   "reading PDF failed" '读取 PDF 失败', "page range parsing failed"
\*   '页码范围解析失败', "PDF conversion failed" 'PDF 转换失败', "OCR processing
\*   failed" 'OCR 处理失败', "generating Markdown failed" '生成 Markdown 失败',
\*   "unexpected error" '未预期的错误', "error" '错误', "cancelled by user"
\*   '用户取消' (main)
NoDoc == [page_count |-> None, sections |-> <<>>]

NoOutcome == [success |-> FALSE, exit |-> None, error |-> "", at |-> "none"]

\* main ends: sys.exit(code) after printing the words, or a normal return
CliExit(code, words, at) == [success |-> code = 0, exit |-> code, error |-> words, at |-> at]

\* pdf_to_markdown returns its JSON result: the keys of the object, and the
\* words its "error" begins with
McpResult(ok, words, at) ==
    [success |-> ok, exit |-> None, error |-> words, at |-> at,
     keys |-> IF ok THEN {"success", "output_path", "page_count", "images_extracted"}
              ELSE {"success", "error"}]

\* the clauses without `except APIError`
McpHandler_noApiClause(e) ==
    IF IsInstance(e, {"ConfigurationError"}) THEN "config error"
    ELSE IF IsInstance(e, {"PDFProcessingError"}) THEN "PDF processing failed"
    ELSE "unknown error"

\* the except clauses of pdf_to_markdown, in order
McpHandler(e) ==
    IF IsInstance(e, {"ConfigurationError"}) THEN "config error"
    ELSE IF IsInstance(e, {"PDFProcessingError"}) THEN "PDF processing failed"
    ELSE IF IsInstance(e, {"APIError"}) THEN "API call failed"
    ELSE "unknown error"

\* the outermost except clauses of main, in order
CliOuterHandler(e, at) ==
    IF IsInstance(e, {"OCRByMeError"}) THEN CliExit(1, "error", at)
    ELSE IF IsInstance(e, {"KeyboardInterrupt"}) THEN CliExit(130, "cancelled by user", at)
    ELSE CliExit(1, "unexpected error", at)

\* the except clauses around the OCR step of main, then the outermost ones
CliOcrHandler(e, at) ==
    IF IsInstance(e, {"APIError"}) THEN CliExit(1, "API call failed", at)
    ELSE IF IsInstance(e, {"Exception"}) THEN CliExit(1, "OCR processing failed", at)
    ELSE CliOuterHandler(e, at)

\* the except clause around the Markdown step of main, then the outermost ones
CliGenerateHandler(e, at) ==
    IF IsInstance(e, {"Exception"}) THEN CliExit(1, "generating Markdown failed", at)
    ELSE CliOuterHandler(e, at)

\* an exception of class cls raised by a step of the run
Raised(cls) == Exc(cls, None, None, 0)

\* the run ends with outcome o
Finish(o) == pc' = "finished" /\ outcome' = o

\* pdf2image.convert_from_path(first_page, last_page) on a PDF of total pages:
\* the pages from max(first, 1) to min(last, total)
ConvertedPages(first, last, total) ==
    RangeList(IF first < 1 THEN 1 ELSE first, IF last > total THEN total ELSE last)

\* values of --first-page / --last-page tried
PageOptions == {None, 1, MaxTotal + 1}

\* page-range expressions tried in a run
RunPages ==
    {NoStr, <<"1">>, <<"3">>, <<"1", ",", "3">>, <<"1", "-", "3">>, <<"3", "-", "1">>,
     <<"-">>}

\* Settings.validate accepts timeout from TimeoutMin to TimeoutMax
TimeoutMin == 1

TimeoutMax == 600

\* the default of --timeout and of the timeout argument
DefaultTimeout == 60

\* the API key of the environment: not set, the placeholder of .env.example
\* ("your_api_key_here"), or a key
ApiKeys == {"absent", "placeholder", "key"}

\* Settings.validate() on the key; default_dpi and timeout of the Settings
\* object are the defaults here, which pass
Settings_validate(key) ==
    IF key = "absent" \/ key = "placeholder" THEN "ConfigurationError" ELSE "ok"

\* get_settings(): Settings(dashscope_api_key=env_key), then validate()
get_settings(key) == Settings_validate(key)

\* get_mcp_settings(timeout): raises for a missing key only and returns
\* Settings(dashscope_api_key=api_key, timeout=timeout) without validate()
get_mcp_settings(key) == IF key = "absent" THEN "ConfigurationError" ELSE "ok"

\* step 1: pdf_to_markdown checks the input file and reads the API key;
\* main (click has checked the file) loads and validates the settings
RunConfig ==
    /\ pc = "start"
    /\ \E pdf_exists \in BOOLEAN :
          IF fe = "mcp" /\ ~pdf_exists
          THEN Finish(McpResult(FALSE, "PDF file does not exist", "config"))
          ELSE IF fe = "mcp" /\ get_mcp_settings(api_key) # "ok"
          THEN Finish(McpResult(FALSE, McpHandler(Raised(get_mcp_settings(api_key))),
                                "config"))
          ELSE IF fe = "cli" /\ get_settings(api_key) # "ok"
          THEN Finish(CliExit(1, "config error", "config"))
          ELSE pc' = "count" /\ UNCHANGED outcome
    /\ UNCHANGED <<cfgVars, preprocessed>>
    /\ UNCHANGED <<fe, core, extract_images, images_dir, images, image_paths, temp_dir,
                   ocr_client, ri, ocr_results, extracted, doc>>
    /\ UNCHANGED <<retryVars, parseVars, imgVars, clientVars, batchVars>>
    /\ UNCHANGED <<filesVars, buildVars, promptVars>>

\* step 2: PDFProcessor.get_page_count_from_path
RunPageCount ==
    /\ pc = "count"
    /\ \E readable \in BOOLEAN, n \in 0..MaxTotal :
          IF ~readable
          THEN /\ Finish(IF fe = "mcp"
                         THEN McpResult(FALSE, McpHandler(Raised("PDFProcessingError")), "count")
                         ELSE CliExit(1, "reading PDF failed", "count"))
               /\ UNCHANGED total_pages
          ELSE /\ total_pages' = n
               /\ pc' = "parse"
               /\ UNCHANGED outcome
    /\ UNCHANGED <<cfgVars, preprocessed>>
    /\ UNCHANGED <<fe, core, extract_images, images_dir, images, image_paths, temp_dir,
                   ocr_client, ri, ocr_results, extracted, doc>>
    /\ UNCHANGED <<page_numbers, parseRest, retryVars, imgVars, clientVars, batchVars>>
    /\ UNCHANGED <<filesVars, buildVars, promptVars>>

\* step 2: parse_page_range on the --pages / pages argument (and, in main,
\* --first-page and --last-page)
RunParse ==
    /\ pc = "parse"
    /\ \E str \in RunPages, first \in PageOptions, last \in PageOptions :
          /\ fe = "mcp" => first = None /\ last = None
          /\ LET r == IF fe = "mcp" THEN parse_page_range(str, total_pages)
                      ELSE cli_parse_page_range(str, total_pages, first, last)
             IN  IF ~r.ok
                 THEN /\ Finish(IF fe = "mcp"
                                THEN McpResult(FALSE, McpHandler(Raised("ValueError")), "parse")
                                ELSE CliExit(1, "page range parsing failed", "parse"))
                      /\ UNCHANGED page_numbers
                 ELSE /\ page_numbers' = r.pages
                      /\ pc' = "processor"
                      /\ UNCHANGED outcome
    /\ UNCHANGED <<cfgVars, preprocessed>>
    /\ UNCHANGED <<fe, core, extract_images, images_dir, images, image_paths, temp_dir,
                   ocr_client, ri, ocr_results, extracted, doc>>
    /\ UNCHANGED <<total_pages, parseRest, retryVars, imgVars, clientVars, batchVars>>
    /\ UNCHANGED <<filesVars, buildVars, promptVars>>

\* the except clause around the rasterizing step of main, then the outermost
CliConvertHandler(e, at) ==
    IF IsInstance(e, {"PDFProcessingError"}) THEN CliExit(1, "PDF conversion failed", at)
    ELSE CliOuterHandler(e, at)

\* the run ends with exception e raised at step `at` where handler h of main
\* applies
Fail(e, h, at) ==
    Finish(IF fe = "mcp" THEN McpResult(FALSE, McpHandler(e), at)
           ELSE IF h = "convert" THEN CliConvertHandler(e, at)
           ELSE IF h = "ocr" THEN CliOcrHandler(e, at)
           ELSE IF h = "generate" THEN CliGenerateHandler(e, at)
           ELSE CliOuterHandler(e, at))

\* PDFProcessor(dpi=dpi, images_dir=images_dir, enable_image_enhancement=...):
\* the class raised, or "ok". The shipped __init__(self, dpi, output_format,
\* images_dir) has no enable_image_enhancement parameter; the one the tests
\* patch in accepts the call
PDFProcessor(c, d) ==
    IF c = "shipped" THEN "TypeError"
    ELSE IF d < DpiMin \/ d > DpiMax THEN "PDFProcessingError"
    ELSE "ok"

\* QwenVLClient(timeout=..., temperature=...): __init__ calls get_settings(),
\* then the shipped one reads settings.temperature / settings.max_tokens,
\* which Settings does not have; the timeout is passed on to OpenAI unchecked
QwenVLClient(c, key, init_ok) ==
    IF get_settings(key) # "ok" THEN get_settings(key)
    ELSE IF c = "shipped" THEN "AttributeError"
    ELSE IF ~init_ok THEN "APIError"
    ELSE "ok"

\* markdown_gen.generate(ocr_results, metadata, output, extracted_images):
\* the shipped generate(self, ocr_results, metadata, output_path) takes one
\* argument fewer
generate(c, write_ok) ==
    IF c = "shipped" THEN "TypeError"
    ELSE IF ~write_ok THEN "MarkdownGenerationError"
    ELSE "ok"

\* _build_markdown: the header with metadata["page_count"] and one section
\* per entry of ocr_results, in order
build_markdown(pages, page_count) == [page_count |-> page_count, sections |-> pages]

\* an empty list gives the first page for both
FirstAndLast_firstPage(pages) ==
    IF pages = <<>> THEN Return(<<1, 1>>)
    ELSE Return(<<pages[1], pages[Len(pages)]>>)

\* first = page_numbers[0]; last = page_numbers[-1]
FirstAndLast(pages) ==
    IF pages = <<>> THEN Raise(Raised("IndexError"))
    ELSE Return(<<pages[1], pages[Len(pages)]>>)

\* step 3: images/ is made, the processor is constructed, first and last are
\* taken from page_numbers
RunProcessor ==
    /\ pc = "processor"
    /\ images_dir' = TRUE
    /\ LET r == PDFProcessor(core, dpi)
       IN  IF r # "ok" THEN Fail(Raised(r), "convert", "processor")
           ELSE IF FirstAndLast(page_numbers).k = "raise"
                THEN Fail(FirstAndLast(page_numbers).exc, "convert", "processor")
           ELSE pc' = "convert" /\ UNCHANGED outcome
    /\ UNCHANGED <<cfgVars, preprocessed>>
    /\ UNCHANGED <<fe, core, extract_images, images, image_paths, temp_dir, ocr_client, ri,
                   ocr_results, extracted, doc>>
    /\ UNCHANGED <<retryVars, parseVars, imgVars, clientVars, batchVars>>
    /\ UNCHANGED <<filesVars, buildVars, promptVars>>

\* convert_to_images returns the pages as pdf2image.convert_from_path gave
\* them, and the front ends save them as they are: no image is handed to
\* ImagePreprocessor.preprocess, whatever enhance_images is
Preprocessing(pages) == [i \in 1..Len(pages) |-> "none"]

\* step 3: processor.convert_to_images(pdf, first_page=first, last_page=last)
RunConvert ==
    /\ pc = "convert"
    /\ \E converts \in BOOLEAN :
          IF ~converts
          THEN /\ Fail(Raised("PDFProcessingError"), "convert", "convert")
               /\ UNCHANGED <<images, preprocessed>>
          ELSE /\ images' = ConvertedPages(FirstAndLast(page_numbers).value[1],
                                           FirstAndLast(page_numbers).value[2], total_pages)
               /\ preprocessed' = Preprocessing(images')
               /\ pc' = "ocr_setup"
               /\ UNCHANGED outcome
    /\ UNCHANGED cfgVars
    /\ UNCHANGED <<fe, core, extract_images, images_dir, image_paths, temp_dir, ocr_client, ri,
                   ocr_results, extracted, doc>>
    /\ UNCHANGED <<retryVars, parseVars, imgVars, clientVars, batchVars>>
    /\ UNCHANGED <<filesVars, buildVars, promptVars>>

\* the directory is left where it is
TemporaryDirectory_exit_kept(d) == d

\* leaving `with tempfile.TemporaryDirectory() as temp_dir:`, by the end of
\* the block or by an exception: the directory d and its files are removed
TemporaryDirectory_exit(d) == "removed"

\* step 4: the temporary directory is made, every image is saved in it as
\* page_<i>.png, the prompt is resolved and the client constructed; an
\* exception leaves the with block, which removes the directory
RunStage ==
    /\ pc = "ocr_setup"
    /\ image_paths' = images
    /\ \E ocr_mode \in ModeStrings, init_ok \in BOOLEAN :
          \* click.Choice lets main have the five modes only
          /\ fe = "cli" => ocr_mode \in OCRModes
          /\ LET r == QwenVLClient(core, api_key, init_ok)
             IN  IF get_prompt(ocr_mode, NoInstruction).k = "raise"
                 THEN /\ Fail(get_prompt(ocr_mode, NoInstruction).exc, "ocr", "ocr_setup")
                      /\ temp_dir' = TemporaryDirectory_exit("exists")
                      /\ UNCHANGED ocr_client
                 ELSE IF r # "ok"
                 THEN /\ Fail(Raised(r), "ocr", "ocr_setup")
                      /\ temp_dir' = TemporaryDirectory_exit("exists")
                      /\ UNCHANGED ocr_client
                 ELSE /\ temp_dir' = "exists"
                      /\ ocr_client' = "open"
                      /\ pc' = "ocr"
                      /\ UNCHANGED outcome
    /\ UNCHANGED <<cfgVars, preprocessed>>
    /\ UNCHANGED <<fe, core, extract_images, images_dir, images, ri, ocr_results, extracted,
                   doc>>
    /\ UNCHANGED <<retryVars, parseVars, imgVars, clientVars, batchVars>>
    /\ UNCHANGED <<filesVars, buildVars, promptVars>>

\* the per-page loop takes the next staged image and calls ocr_image
RunNextImage ==
    /\ pc = "ocr"
    /\ ri < Len(image_paths)
    /\ ri' = ri + 1
    /\ pc' = "call"
    /\ OcrEnter(image_paths[ri + 1])
    /\ UNCHANGED <<cfgVars, preprocessed>>
    /\ UNCHANGED <<fe, core, extract_images, images_dir, images, image_paths, temp_dir,
                   ocr_client, ocr_results, extracted, doc, outcome>>
    /\ UNCHANGED <<parseVars, imgVars, batchVars>>
    /\ UNCHANGED <<filesVars, buildVars, promptVars>>

\* what can happen in one execution of the body of ocr_image in a run: the
\* image was staged by the run itself, so it exists; Ctrl-C can arrive
RunOcrEvents == (OcrEvents \ {"missing"}) \cup {"interrupt"}

\* one execution of the body of ocr_image; Ctrl-C reaches a run of main only
RunOcrAttempt ==
    /\ pc = "call"
    /\ \E ev \in RunOcrEvents :
          /\ ev = "interrupt" => fe = "cli"
          /\ OcrAttempt(ev)
    /\ UNCHANGED <<parseVars, imgVars, batchVars, runVars>>
    /\ UNCHANGED <<filesVars, buildVars, promptVars>>

RunOcrSleep ==
    /\ pc = "call"
    /\ OcrSleep
    /\ UNCHANGED <<parseVars, imgVars, batchVars, runVars>>
    /\ UNCHANGED <<filesVars, buildVars, promptVars>>

\* the try/except Exception around ocr_image in the loop of main; the loop of
\* pdf_to_markdown has none
LoopCatches(frontend, e) == frontend = "cli" /\ IsInstance(e, {"Exception"})

\* the call of ocr_image returned or raised: main appends the text or, for an
\* Exception, the error comment; pdf_to_markdown appends the text, and an
\* exception leaves the loop and the with block without closing the client
RunCollect ==
    /\ pc = "call"
    /\ rpc \in {"returned", "raised"}
    /\ IF rpc = "returned" \/ LoopCatches(fe, exc)
       THEN /\ ocr_results' = BatchAppend(ocr_results, rpc, ret, exc)
            /\ pc' = "ocr"
            /\ UNCHANGED <<temp_dir, outcome>>
       ELSE /\ temp_dir' = TemporaryDirectory_exit(temp_dir)
            /\ Fail(exc, "ocr", "ocr")
            /\ UNCHANGED ocr_results
    /\ OcrLeave
    /\ UNCHANGED <<cfgVars, preprocessed>>
    /\ UNCHANGED <<fe, core, extract_images, images_dir, images, image_paths, ocr_client, ri,
                   extracted, doc>>
    /\ UNCHANGED <<parseVars, imgVars, batchVars>>
    /\ UNCHANGED <<filesVars, buildVars, promptVars>>

\* the loop left after its first image
LoopExhausted_early(i, paths) == i >= 1 \/ i = Len(paths)

\* `for img_path in image_paths` has no image left after the i-th
LoopExhausted(i, paths) == i = Len(paths)

\* the loop is over: ocr_client.close(), the with block removes the directory
RunClose ==
    /\ pc = "ocr"
    /\ LoopExhausted(ri, image_paths)
    /\ ocr_client' = "closed"
    /\ temp_dir' = TemporaryDirectory_exit(temp_dir)
    /\ pc' = "extract"
    /\ UNCHANGED <<cfgVars, preprocessed>>
    /\ UNCHANGED <<fe, core, extract_images, images_dir, images, image_paths, ri, ocr_results,
                   extracted, doc, outcome>>
    /\ UNCHANGED <<retryVars, parseVars, imgVars, clientVars, batchVars>>
    /\ UNCHANGED <<filesVars, buildVars, promptVars>>

\* processor.extract_all_images: always in main, under extract_images in
\* pdf_to_markdown
RunExtract ==
    /\ pc = "extract"
    /\ IF fe = "cli" \/ extract_images
       THEN \E extracts \in BOOLEAN :
               IF ~extracts
               THEN Fail(Raised("PDFProcessingError"), "generate", "extract")
                    /\ UNCHANGED extracted
               ELSE extracted' = TRUE /\ pc' = "generate" /\ UNCHANGED outcome
       ELSE pc' = "generate" /\ UNCHANGED <<extracted, outcome>>
    /\ UNCHANGED <<cfgVars, preprocessed>>
    /\ UNCHANGED <<fe, core, extract_images, images_dir, images, image_paths, temp_dir,
                   ocr_client, ri, ocr_results, doc>>
    /\ UNCHANGED <<retryVars, parseVars, imgVars, clientVars, batchVars>>
    /\ UNCHANGED <<filesVars, buildVars, promptVars>>

\* step 5: metadata = {source, page_count: len(page_numbers)} and
\* markdown_gen.generate(ocr_results, metadata, output, extracted_images),
\* which writes the file once; then the success outcome
RunGenerate ==
    /\ pc = "generate"
    /\ \E write_ok \in BOOLEAN :
          LET r == generate(core, write_ok)
          IN  IF r # "ok"
              THEN Fail(Raised(r), "generate", "generate") /\ UNCHANGED doc
              ELSE /\ doc' = build_markdown(ocr_results, Len(page_numbers))
                   /\ Finish(IF fe = "mcp" THEN McpResult(TRUE, "", "done")
                             ELSE CliExit(0, "", "done"))
    /\ UNCHANGED <<cfgVars, preprocessed>>
    /\ UNCHANGED <<fe, core, extract_images, images_dir, images, image_paths, temp_dir,
                   ocr_client, ri, ocr_results, extracted>>
    /\ UNCHANGED <<retryVars, parseVars, imgVars, clientVars, batchVars>>
    /\ UNCHANGED <<filesVars, buildVars, promptVars>>

\* ------------------------------------------------------------------------
\* core/pdf_image_extractor.py: PDFImageExtractor, and the files under images/
\* ------------------------------------------------------------------------
Png == <<"p", "n", "g">>

Jpeg == <<"j", "p", "e", "g">>

\* what happens to one image object of a page in extract_images:
\*   png, jpeg   doc.extract_image gives the bytes with that "ext", the file
\*               is written and the image listed
\*   raises      doc.extract_image or the writing raises
\*   empty       doc.extract_image gives nothing
\*   rects_fail  the (png) file is written, then page.get_image_rects raises
ObjectKinds == {"png", "jpeg", "raises", "empty", "rects_fail"}

PageObjects == UNION { [1..n -> ObjectKinds] : n \in 0..MaxPageImages }

ObjectWritten(o) == o \in {"png", "jpeg", "rects_fail"}

ObjectListed(o) == o \in {"png", "jpeg"}

ObjectExt(o) == IF o = "jpeg" THEN Jpeg ELSE Png

\* the file written for an image: embedded or inline, and the page it is of
FileOf(kind, page) == [kind |-> kind, page |-> page]

\* extract_images(pdf_path, page_num) on a page with image objects objs, from
\* the img_index-th object on: the paths written and the paths listed
RECURSIVE PDFImageExtractor_extract_images(_, _, _)
PDFImageExtractor_extract_images(objs, page, img_index) ==
    IF img_index > Len(objs) THEN [written |-> <<>>, listed |-> <<>>]
    ELSE LET rest == PDFImageExtractor_extract_images(objs, page, img_index + 1)
             image_filename == ImageFilename(page, img_index, ObjectExt(objs[img_index]))
         IN  [written |-> IF ObjectWritten(objs[img_index])
                          THEN <<image_filename>> \o rest.written ELSE rest.written,
              listed |-> IF ObjectListed(objs[img_index])
                         THEN <<image_filename>> \o rest.listed ELSE rest.listed]

\* the files after the paths of ps are written with images of the given kind
\* of page
RECURSIVE WriteAll(_, _, _, _)
WriteAll(fs, ps, kind, page) ==
    IF ps = <<>> THEN fs
    ELSE WriteAll([n \in DOMAIN fs \cup {Head(ps)} |->
                      IF n = Head(ps) THEN FileOf(kind, page) ELSE fs[n]],
                  Tail(ps), kind, page)

\* the paths of ps that are written over: there already, or twice in ps
WrittenOver(fs, ps) ==
    { ps[i] : i \in { j \in 1..Len(ps) : ps[j] \in DOMAIN fs \/ \E h \in 1..(j - 1) : ps[h] = ps[j] } }

\* step 5 of a run: processor.extract_all_images is called, or (pdf_to_markdown
\* without extract_images) extracted_images stays {}
ExtractStart ==
    /\ xpc = "start"
    /\ xpc' = IF extract_embedded THEN "embedded" ELSE "extracted"
    /\ UNCHANGED <<extract_embedded, extract_inline, pdf_len, n_results, xpage, all_images,
                   inline_images, img_files, overwritten>>
    /\ UNCHANGED <<retryVars, parseVars, imgVars, clientVars, batchVars, runVars, buildVars, promptVars>>

\* the key counted from 1
AllImagesKey_oneBased(n) == n + 1

\* `all_images[page_num] = images`, page_num (here n) the loop variable of
\* `for page_num in range(len(doc))`
AllImagesKey(n) == n

\* extract_all_images: the next page of the loop
ExtractAllPage ==
    /\ xpc = "embedded"
    /\ xpage < pdf_len
    /\ \E objs \in PageObjects :
          LET n == xpage
              page == n + 1
              r == PDFImageExtractor_extract_images(objs, page, 1)
          IN  /\ all_images' =
                    IF r.listed # <<>>
                    THEN [k \in DOMAIN all_images \cup {AllImagesKey(n)} |->
                            IF k = AllImagesKey(n) THEN r.listed ELSE all_images[k]]
                    ELSE all_images
              /\ img_files' = WriteAll(img_files, r.written, "embedded", page)
              /\ overwritten' = overwritten \cup WrittenOver(img_files, r.written)
    /\ xpage' = xpage + 1
    /\ UNCHANGED <<extract_embedded, extract_inline, pdf_len, n_results, xpc, inline_images>>
    /\ UNCHANGED <<retryVars, parseVars, imgVars, clientVars, batchVars, runVars, buildVars, promptVars>>

\* extract_all_images returns all_images
ExtractAllReturn ==
    /\ xpc = "embedded"
    /\ xpage = pdf_len
    /\ xpc' = "extracted"
    /\ UNCHANGED <<extract_embedded, extract_inline, pdf_len, n_results, xpage, all_images,
                   inline_images, img_files, overwritten>>
    /\ UNCHANGED <<retryVars, parseVars, imgVars, clientVars, batchVars, runVars, buildVars, promptVars>>

\* the matches of one page result: a png data URL that decodes and is
\* written, or one that fails
MatchKinds == {"png", "bad"}

PageMatches == UNION { [1..n -> MatchKinds] : n \in 0..MaxPageImages }

\* extract_and_save_images(markdown, page_num) on a page with matches ms, from
\* the k-th match on with `saved` already saved: the paths saved
RECURSIVE SavedInline(_, _, _, _)
SavedInline(ms, page, k, saved) ==
    IF k > Len(ms) THEN saved
    ELSE SavedInline(ms, page, k + 1,
                     IF ms[k] = "png"
                     THEN Append(saved, ImageFilename(page, ImageIndex(saved, k - 1), Png))
                     ELSE saved)

\* generate with extract_images: markdown_gen.generate starts
\* extract_and_save_images_from_markdown_list; without, nothing more is written
GenerateImagesStart ==
    /\ xpc = "extracted"
    /\ xpc' = IF extract_inline THEN "inline" ELSE "done"
    /\ xpage' = 0
    /\ UNCHANGED <<extract_embedded, extract_inline, pdf_len, n_results, all_images,
                   inline_images, img_files, overwritten>>
    /\ UNCHANGED <<retryVars, parseVars, imgVars, clientVars, batchVars, runVars, buildVars, promptVars>>

\* extract_and_save_images_from_markdown_list: the next page result,
\* `for page_num, markdown in enumerate(markdown_list, 1)`
InlinePage ==
    /\ xpc = "inline"
    /\ xpage < n_results
    /\ \E ms \in PageMatches :
          LET page == xpage + 1
              saved == SavedInline(ms, page, 1, <<>>)
          IN  /\ inline_images' = inline_images \o saved
              /\ img_files' = WriteAll(img_files, saved, "inline", page)
              /\ overwritten' = overwritten \cup WrittenOver(img_files, saved)
    /\ xpage' = xpage + 1
    /\ UNCHANGED <<extract_embedded, extract_inline, pdf_len, n_results, xpc, all_images>>
    /\ UNCHANGED <<retryVars, parseVars, imgVars, clientVars, batchVars, runVars, buildVars, promptVars>>

\* extract_and_save_images_from_markdown_list returns
InlineReturn ==
    /\ xpc = "inline"
    /\ xpage = n_results
    /\ xpc' = "done"
    /\ UNCHANGED <<extract_embedded, extract_inline, pdf_len, n_results, xpage, all_images,
                   inline_images, img_files, overwritten>>
    /\ UNCHANGED <<retryVars, parseVars, imgVars, clientVars, batchVars, runVars, buildVars, promptVars>>

\* ------------------------------------------------------------------------
\* core/markdown_generator.py: MarkdownGenerator._build_markdown
\* ------------------------------------------------------------------------
\* the lines of the document, by kind: "title" is '# 文档', "blank" is '',
\* "rule" is '---', "generator" is '> 由 OCRByMe 生成', "source" is
\* '> 来源: <name>', "page_count" is '> 页数: <n>', "time" is '> 生成时间: <t>',
\* "heading" is '## 第 <n> 页', "body" is a page result and "end" is
\* '<!-- 文档结束 -->'
Line(kind, value) == [kind |-> kind, value |-> value]

Blank == Line("blank", 0)

Rule == Line("rule", 0)

\* metadata=None
NoMetadata == [none |-> TRUE]

\* `if metadata:` of a dict or None
MetadataTruthy(metadata) == metadata # NoMetadata /\ DOMAIN metadata # {}

\* Path(metadata["source"]).name of a path given as its parts
PathName(path) == path[Len(path)]

\* the block of the metadata
MetadataLines(metadata, now) ==
    IF ~MetadataTruthy(metadata) THEN <<>>
    ELSE <<Line("generator", 0)>>
         \o (IF "source" \in DOMAIN metadata
             THEN <<Line("source", PathName(metadata["source"]))>> ELSE <<>>)
         \o (IF "page_count" \in DOMAIN metadata
             THEN <<Line("page_count", metadata["page_count"])>> ELSE <<>>)
         \o <<Line("time", now), Blank, Rule, Blank>>

\* the page numbers counted from 0
SectionNumber_fromZero(position) == position - 1

\* `for page_num, result in enumerate(ocr_results, 1)`: the number of the
\* result at a 1-based position
SectionNumber(position) == position

\* the lines of the results from the given position on
RECURSIVE SectionLines(_, _)
SectionLines(pages, position) ==
    IF position > Len(pages) THEN <<>>
    ELSE <<Line("heading", SectionNumber(position)), Blank, Rule, Blank,
           Line("body", pages[position]), Blank, Rule, Blank>>
         \o SectionLines(pages, position + 1)

\* _build_markdown(ocr_results, metadata, saved_images): the lines joined
\* with "\n"
MarkdownLines(pages, metadata, now) ==
    <<Line("title", 0), Blank>> \o MetadataLines(metadata, now)
    \o SectionLines(pages, 1) \o <<Line("end", 0)>>

\* _build_markdown returns
BuildMarkdown ==
    /\ mdpc = "call"
    /\ md_lines' = MarkdownLines(md_results, md_metadata, md_now)
    /\ mdpc' = "returned"
    /\ UNCHANGED <<md_results, md_metadata, md_now>>
    /\ UNCHANGED <<retryVars, parseVars, imgVars, clientVars, batchVars, runVars, filesVars,
                   promptVars>>

\* ------------------------------------------------------------------------
\* Components not in use in a specification
\* ------------------------------------------------------------------------
RetryIdle ==
    /\ max_attempts = 0 /\ delay = 0 /\ backoff = 0 /\ exceptions = {}
    /\ attempt = 0 /\ current_delay = 0 /\ rpc = "idle" /\ ret = 0 /\ exc = NoExc
    /\ script = <<>> /\ calls = 0 /\ sleeps = <<>>

ParseIdle ==
    /\ pfn = "none" /\ pages_str = NoStr /\ total_pages = 0
    /\ first_page = None /\ last_page = None
    /\ ppc = "idle" /\ page_numbers = <<>> /\ perr = "none"

ClientIdle == cur_image = 0 /\ requests = 0

BatchIdle == batch_paths = <<>> /\ bi = 0 /\ results = <<>> /\ bpc = "idle"

RunIdle ==
    /\ fe = "none" /\ core = "none" /\ pc = "idle" /\ extract_images = FALSE
    /\ images_dir = FALSE /\ images = <<>> /\ image_paths = <<>> /\ temp_dir = "none"
    /\ ocr_client = "none" /\ ri = 0 /\ ocr_results = <<>> /\ extracted = FALSE
    /\ doc = NoDoc /\ outcome = NoOutcome
    /\ api_key = "none" /\ dpi = 0 /\ timeout = 0 /\ preprocessed = <<>>

FilesIdle ==
    /\ extract_embedded = FALSE /\ extract_inline = FALSE /\ pdf_len = 0 /\ n_results = 0
    /\ xpc = "idle" /\ xpage = 0 /\ all_images = <<>> /\ inline_images = <<>>
    /\ img_files = <<>> /\ overwritten = {}

BuildIdle ==
    /\ md_results = <<>> /\ md_metadata = NoMetadata /\ md_now = 0 /\ md_lines = <<>>
    /\ mdpc = "idle"

PromptIdle ==
    /\ prompt_fn = "none" /\ prompt_mode = "" /\ prompt_custom = NoInstruction
    /\ prompt_end = [k |-> "idle", value |-> <<>>, exc |-> NoExc]

ImgIdle ==
    /\ markdown = <<>> /\ page_num = 0 /\ matches = <<>> /\ mi = 0
    /\ savedFlags = <<>> /\ processed_markdown = <<>> /\ offset = 0
    /\ saved_images = <<>> /\ files = <<>> /\ ipc = "idle"

\* ------------------------------------------------------------------------
\* SpecRetry: the wrapper around an arbitrary function
\* ------------------------------------------------------------------------
\* what the wrapped function does on one call (tests/test_retry.py raises
\* ValueError and KeyError; ocr_image raises APIError and RateLimitError)
FuncKinds == {"ok", "APIError", "RateLimit5", "RateLimitNone", "ValueError"}

\* the k-th call of a function doing kind: it returns k, or raises an
\* exception whose message names the call
FuncDoes(kind, k) ==
    CASE kind = "ok" -> Return(k)
      [] kind = "APIError" -> Raise(APIError(None, k))
      [] kind = "RateLimit5" -> Raise(RateLimitError(5, k))
      [] kind = "RateLimitNone" -> Raise(RateLimitError(None, k))
      [] OTHER -> Raise(Exc(kind, None, None, k))

Scripts(n) == [1..n -> FuncKinds]

\* the decorator arguments tried: those of ocr_image (ocr_client.py:103-108),
\* those of tests/test_retry.py, and the defaults
RetryArgs ==
    { <<1, 2, {"APIError", "RateLimitError"}>>,
      <<1, 2, {"Exception"}>>,
      <<2, 3, {"ValueError"}>>,
      <<3, 1, {"APIError", "RateLimitError"}>> }

InitRetry ==
    /\ max_attempts \in 0..MaxAttempts
    /\ \E a \in RetryArgs :
          /\ delay = a[1]
          /\ backoff = a[2]
          /\ exceptions = a[3]
    /\ script \in Scripts(MaxAttempts + 1)
    /\ attempt = 0
    /\ current_delay = delay
    /\ rpc = "call"
    /\ ret = 0
    /\ exc = NoExc
    /\ calls = 0
    /\ sleeps = <<>>
    /\ ParseIdle
    /\ ImgIdle
    /\ ClientIdle
    /\ BatchIdle
    /\ RunIdle
    /\ FilesIdle
    /\ BuildIdle
    /\ PromptIdle

\* the wrapped function is called: the script says what it does
RetryCall ==
    /\ calls < Len(script)
    /\ WrapperAttempt(FuncDoes(script[calls + 1], calls + 1))
    /\ UNCHANGED <<script, parseVars, imgVars, clientVars, batchVars, runVars>>
    /\ UNCHANGED <<filesVars, buildVars, promptVars>>

RetrySleep == WrapperSleep /\ UNCHANGED <<parseVars, imgVars, clientVars, batchVars, runVars>>
    /\ UNCHANGED <<filesVars, buildVars, promptVars>>

RetryExhausted == WrapperExhausted /\ UNCHANGED <<parseVars, imgVars, clientVars, batchVars, runVars>>
    /\ UNCHANGED <<filesVars, buildVars, promptVars>>

NextRetry == RetryCall \/ RetrySleep \/ RetryExhausted

SpecRetry == InitRetry /\ [][NextRetry]_vars

\* ------------------------------------------------------------------------
\* SpecParse: parse_page_range of either front end on every short expression
\* ------------------------------------------------------------------------
Exprs == UNION { [1..n -> ExprChars] : n \in 0..MaxExprLen }

InitParse ==
    /\ RetryIdle
    /\ ImgIdle
    /\ ClientIdle
    /\ BatchIdle
    /\ RunIdle
    /\ FilesIdle
    /\ BuildIdle
    /\ PromptIdle
    /\ pfn = "none"
    /\ pages_str \in Exprs \cup {NoStr}
    /\ total_pages \in 0..MaxTotal
    /\ first_page = None
    /\ last_page = None
    /\ ppc = "input"
    /\ page_numbers = <<>>
    /\ perr = "none"

\* mcp_server.parse_page_range(pages, total_pages) returns or raises
ParseMcp ==
    /\ ppc = "input"
    /\ LET r == parse_page_range(pages_str, total_pages)
       IN  /\ page_numbers' = r.pages
           /\ perr' = IF r.ok THEN "none" ELSE "ValueError"
    /\ pfn' = "mcp"
    /\ ppc' = "done"
    /\ UNCHANGED <<pages_str, total_pages, first_page, last_page, retryVars, imgVars,
                   clientVars, batchVars, runVars>>
    /\ UNCHANGED <<filesVars, buildVars, promptVars>>

\* cli.parse_page_range(pages, total_pages, first_page, last_page) returns or
\* raises
ParseCli ==
    /\ ppc = "input"
    /\ \E first \in PageOptions, last \in PageOptions :
          /\ first_page' = first
          /\ last_page' = last
          /\ LET r == cli_parse_page_range(pages_str, total_pages, first, last)
             IN  /\ page_numbers' = r.pages
                 /\ perr' = IF r.ok THEN "none" ELSE "ValueError"
    /\ pfn' = "cli"
    /\ ppc' = "done"
    /\ UNCHANGED <<pages_str, total_pages, retryVars, imgVars, clientVars, batchVars, runVars>>
    /\ UNCHANGED <<filesVars, buildVars, promptVars>>

NextParse == ParseMcp \/ ParseCli

SpecParse == InitParse /\ [][NextParse]_vars

\* ------------------------------------------------------------------------
\* SpecImg: extract_and_save_images on pages built of a few pieces
\* ------------------------------------------------------------------------
\* the pieces: plain text, a line break, data-URL images (short and long alt
\* text and payload, one whose payload does not decode), an image that is no
\* data URL, and an unclosed image opener
Pieces ==
    { <<"a", " ", "b">>,
      <<"\n">>,
      <<"!", "[", "x", "]", "(", "d", "a", "t", "a", ":", "i", "m", "a", "g", "e", "/", "p", "n", "g", ";", "b", "a", "s", "e", "6", "4", ",", "Q", "U", "J", "D", ")">>,
      <<"!", "[", "f", "i", "g", " ", "1", "]", "(", "d", "a", "t", "a", ":", "i", "m", "a", "g", "e", "/", "j", "p", "e", "g", ";", "b", "a", "s", "e", "6", "4", ",", "Q", "U", "J", "D", "R", "E", "V", "G", "R", "0", "g", "=", ")">>,
      <<"!", "[", "]", "(", "d", "a", "t", "a", ":", "i", "m", "a", "g", "e", "/", "p", "n", "g", ";", "b", "a", "s", "e", "6", "4", ",", "Q", "U", "J", ")">>,
      <<"!", "[", "y", "]", "(", "u", ".", "p", "n", "g", ")">>,
      <<"!", "[", "z">> }

RECURSIVE Concat(_)
Concat(ss) == IF ss = <<>> THEN <<>> ELSE Head(ss) \o Concat(Tail(ss))

Pages == { Concat(ss) : ss \in UNION { [1..n -> Pieces] : n \in 0..MaxSegs } }

InitImg ==
    /\ RetryIdle
    /\ ParseIdle
    /\ ClientIdle
    /\ BatchIdle
    /\ RunIdle
    /\ FilesIdle
    /\ BuildIdle
    /\ PromptIdle
    /\ markdown \in Pages
    /\ page_num \in {1, 12}
    /\ matches = FindIter(markdown, 1)
    /\ mi = 0
    /\ savedFlags = <<>>
    /\ processed_markdown = markdown
    /\ offset = 0
    /\ saved_images = <<>>
    /\ files = <<>>
    /\ ipc = "loop"

\* the next match is handled; write_bytes succeeds or raises OSError
ImgMatch ==
    /\ \E writeOk \in BOOLEAN : ImgHandleMatch(writeOk)
    /\ UNCHANGED <<retryVars, parseVars, clientVars, batchVars, runVars>>
    /\ UNCHANGED <<filesVars, buildVars, promptVars>>

ImgReturn == ImgFinish /\ UNCHANGED <<retryVars, parseVars, clientVars, batchVars, runVars>>
    /\ UNCHANGED <<filesVars, buildVars, promptVars>>

NextImg == ImgMatch \/ ImgReturn

SpecImg == InitImg /\ [][NextImg]_vars

\* ------------------------------------------------------------------------
\* SpecBatch: ocr_images_batch on up to MaxImages images
\* ------------------------------------------------------------------------
\* the images are named by numbers; a list may name an image twice
InitBatch ==
    /\ RetryIdle
    /\ ParseIdle
    /\ ImgIdle
    /\ ClientIdle
    /\ RunIdle
    /\ FilesIdle
    /\ BuildIdle
    /\ PromptIdle
    /\ batch_paths \in UNION { [1..n -> 1..2] : n \in 0..MaxImages }
    /\ bi = 0
    /\ results = <<>>
    /\ bpc = "loop"

BatchStart == BatchNextImage /\ UNCHANGED <<parseVars, imgVars, runVars>>
    /\ UNCHANGED <<filesVars, buildVars, promptVars>>

BatchOcrAttempt ==
    /\ bpc = "ocr"
    /\ \E ev \in OcrEvents : OcrAttempt(ev)
    /\ UNCHANGED <<parseVars, imgVars, batchVars, runVars>>
    /\ UNCHANGED <<filesVars, buildVars, promptVars>>

BatchOcrSleep ==
    /\ bpc = "ocr"
    /\ OcrSleep
    /\ UNCHANGED <<parseVars, imgVars, batchVars, runVars>>
    /\ UNCHANGED <<filesVars, buildVars, promptVars>>

BatchResult == BatchCollect /\ UNCHANGED <<parseVars, imgVars, runVars>>
    /\ UNCHANGED <<filesVars, buildVars, promptVars>>

BatchReturn == BatchFinish /\ UNCHANGED <<parseVars, imgVars, runVars>>
    /\ UNCHANGED <<filesVars, buildVars, promptVars>>

NextBatch == BatchStart \/ BatchOcrAttempt \/ BatchOcrSleep \/ BatchResult \/ BatchReturn

SpecBatch == InitBatch /\ [][NextBatch]_vars

\* ------------------------------------------------------------------------
\* SpecRun: conversion runs of both front ends
\* ------------------------------------------------------------------------
InitRun ==
    /\ RetryIdle
    /\ ParseIdle
    /\ ImgIdle
    /\ ClientIdle
    /\ BatchIdle
    /\ FilesIdle
    /\ BuildIdle
    /\ PromptIdle
    /\ fe \in {"cli", "mcp"}
    /\ core \in {"shipped", "patched"}
    /\ extract_images \in BOOLEAN
    /\ api_key \in ApiKeys
    /\ dpi \in {DpiMin - 1, DpiMin, DpiMax, DpiMax + 1}
    /\ timeout \in {TimeoutMin - 1, DefaultTimeout, TimeoutMax + 1}
    /\ preprocessed = <<>>
    /\ pc = "start"
    /\ images_dir = FALSE /\ images = <<>> /\ image_paths = <<>> /\ temp_dir = "none"
    /\ ocr_client = "none" /\ ri = 0 /\ ocr_results = <<>> /\ extracted = FALSE
    /\ doc = NoDoc /\ outcome = NoOutcome

NextRun ==
    \/ RunConfig \/ RunPageCount \/ RunParse \/ RunProcessor \/ RunConvert \/ RunStage
    \/ RunNextImage \/ RunOcrAttempt \/ RunOcrSleep \/ RunCollect \/ RunClose
    \/ RunExtract \/ RunGenerate

SpecRun == InitRun /\ [][NextRun]_vars

\* ------------------------------------------------------------------------
\* SpecFiles: the image files of one run, embedded then inline
\* ------------------------------------------------------------------------
\* main extracts the embedded images always and the inline ones unless
\* --no-extract-images; pdf_to_markdown extracts both under extract_images.
\* The page results are those of rasterized pages of the PDF
InitFiles ==
    /\ RetryIdle
    /\ ParseIdle
    /\ ImgIdle
    /\ ClientIdle
    /\ BatchIdle
    /\ RunIdle
    /\ BuildIdle
    /\ PromptIdle
    /\ extract_embedded \in BOOLEAN
    /\ extract_inline \in BOOLEAN
    /\ extract_inline => extract_embedded
    /\ pdf_len \in 0..MaxPdfPages
    /\ n_results \in 0..MaxPdfPages
    /\ n_results <= pdf_len
    /\ xpc = "start"
    /\ xpage = 0
    /\ all_images = <<>>
    /\ inline_images = <<>>
    /\ img_files = <<>>
    /\ overwritten = {}

NextFiles ==
    ExtractStart \/ ExtractAllPage \/ ExtractAllReturn \/ GenerateImagesStart \/ InlinePage \/ InlineReturn

SpecFiles == InitFiles /\ [][NextFiles]_vars

\* ------------------------------------------------------------------------
\* SpecBuild: _build_markdown on up to MaxSections page results
\* ------------------------------------------------------------------------
\* page bodies: two texts and the error comment of a failed page
Bodies == {"text a", "text b", "<!-- OCR failed -->"}

\* metadata: None, or a dict with any of the keys source and page_count (and
\* possibly another key)
Metadatas ==
    {NoMetadata}
    \cup UNION { [keys -> {0}] : keys \in SUBSET {"other"} }
    \cup { [source |-> <<"docs", "a.pdf">>] }
    \cup { [page_count |-> n] : n \in {0, 2} }
    \cup { [source |-> <<"docs", "a.pdf">>, page_count |-> n] : n \in {0, 2} }

InitBuild ==
    /\ RetryIdle
    /\ ParseIdle
    /\ ImgIdle
    /\ ClientIdle
    /\ BatchIdle
    /\ RunIdle
    /\ FilesIdle
    /\ PromptIdle
    /\ md_results \in UNION { [1..n -> Bodies] : n \in 0..MaxSections }
    /\ md_metadata \in Metadatas
    /\ md_now \in {1, 2}
    /\ md_lines = <<>>
    /\ mdpc = "call"

NextBuild == BuildMarkdown

SpecBuild == InitBuild /\ [][NextBuild]_vars

\* ------------------------------------------------------------------------
\* SpecPrompt: one call of get_prompt or from_config
\* ------------------------------------------------------------------------
InitPrompt ==
    /\ RetryIdle
    /\ ParseIdle
    /\ ImgIdle
    /\ ClientIdle
    /\ BatchIdle
    /\ RunIdle
    /\ FilesIdle
    /\ BuildIdle
    /\ prompt_fn \in {"get_prompt", "from_config"}
    /\ prompt_mode \in ModeStrings
    /\ prompt_custom \in CustomInstructions
    /\ prompt_fn = "from_config" => prompt_custom = NoInstruction
    /\ prompt_end = PromptPending

NextPrompt == PromptCall

SpecPrompt == InitPrompt /\ [][NextPrompt]_vars

\* ------------------------------------------------------------------------
\* Properties of a conversion run (checked under SpecRun)
\* ------------------------------------------------------------------------
\* the run has called generate with ocr_results and the metadata
HandedToAssembler == pc = "finished" /\ outcome.at \in {"generate", "done"}

IsPageResult(entry) == entry.kind \in {"text", "marker"}

\* every image staged for the run has its entry in ocr_results
AllPagesCollected ==
    /\ Len(ocr_results) = Len(image_paths)
    /\ Len(image_paths) = Len(images)
    /\ \A i \in 1..Len(ocr_results) : IsPageResult(ocr_results[i])

\* C14: the Markdown file is written by one write, made only when every page
\* of the run has its OCR result (text or error comment); a run that fails or
\* is interrupted before that write leaves no Markdown file.
C14_WrittenOnceAfterAllPages ==
    /\ [][doc' # doc => (doc = NoDoc /\ pc = "generate" /\ AllPagesCollected)]_vars
    /\ [](doc # NoDoc => (pc = "finished" /\ outcome.at = "done" /\ AllPagesCollected))
    /\ []((pc = "finished" /\ outcome.at # "done") => doc = NoDoc)

\* a document of two pages written, one of them an error comment
C14_Witness ==
    /\ doc # NoDoc
    /\ Len(doc.sections) = 2
    /\ \E i \in 1..2 : doc.sections[i].kind = "marker"
    /\ \E i \in 1..2 : doc.sections[i].kind = "text"

McpReturned == fe = "mcp" /\ pc = "finished"

InvalidSetting ==
    \/ api_key \in {"absent", "placeholder"}
    \/ dpi < 72 \/ dpi > 600
    \/ timeout < 1 \/ timeout > 600

DpiRefused ==
    /\ pc = "finished" /\ outcome.at = "processor"
    /\ (dpi < 72 \/ dpi > 600)
    /\ api_key = "key" /\ timeout \in 1..600 /\ page_numbers # <<>>
    /\ PDFProcessor(core, dpi) = "PDFProcessingError"

PlainRunEnded ==
    /\ pc = "finished"
    /\ extract_images
    /\ ~InvalidSetting
    /\ total_pages >= 1
    /\ page_numbers = [i \in 1..total_pages |-> i]
    /\ outcome.at \in {"processor", "done"}
    /\ \A i \in 1..Len(ocr_results) : ocr_results[i].kind = "text"

\* C21: for a K-page PDF without embedded images whose pages all get their
\* text from the OCR, none with a data-URL image, and with the extraction of
\* images asked for, the run reports success and the document written has
\* the K page sections 1..K in order, each with the text of its page.
C21_PlainRunSucceeds ==
    PlainRunEnded =>
        /\ outcome.success
        /\ doc # NoDoc
        /\ Len(doc.sections) = total_pages
        /\ \A i \in 1..total_pages :
              doc.sections[i] = [kind |-> "text", image |-> i, msg |-> MessageOf(NoExc)]

\* C22: a run has at most one OCR request under way: the request for an image
\* is sent only when every image before it has its entry in ocr_results, the
\* next image is taken only when the call for the one before, retries and
\* waits included, has ended and left its entry, and the entries are appended
\* and assembled in that order.
C22_OneCallAtATime ==
    /\ [][requests' > requests =>
            /\ pc = "call" /\ rpc = "call"
            /\ cur_image = image_paths[ri]
            /\ Len(ocr_results) = ri - 1]_vars
    /\ [][ri' # ri =>
            /\ ri' = ri + 1
            /\ rpc = "idle" /\ requests = 0
            /\ Len(ocr_results) = ri]_vars
    /\ [][ocr_results' # ocr_results =>
            /\ rpc \in {"returned", "raised"}
            /\ Len(ocr_results') = ri
            /\ ocr_results' = Append(ocr_results, ocr_results'[ri])
            /\ ocr_results'[ri].kind = "text" => ocr_results'[ri].image = image_paths[ri]]_vars
    /\ [](doc # NoDoc => doc.sections = ocr_results)

\* the second image is in its second attempt, after a wait, the first image
\* having its entry
C22_Witness ==
    /\ pc = "call" /\ ri = 2
    /\ calls = 2 /\ requests = 2 /\ Len(sleeps) = 1
    /\ Len(ocr_results) = 1

C29_StagingDirectoryLifecycle ==
    /\ [](pc \in {"ocr", "call"} =>
            /\ temp_dir = "exists"
            /\ Len(image_paths) = Len(images)
            /\ \A i \in 1..Len(images) : image_paths[i] = images[i])
    /\ [][/\ (temp_dir' = "exists" /\ temp_dir # "exists") => temp_dir = "none"
          /\ temp_dir = "removed" => temp_dir' = "removed"]_vars
    /\ [](pc = "finished" => temp_dir # "exists")

\* Ctrl-C arrived during the call for the second of two staged pages
C29_Witness ==
    /\ pc = "finished"
    /\ outcome.exit = 130
    /\ ri = 2 /\ Len(image_paths) = 2
    /\ temp_dir = "removed"

\* C30: a run whose page list is empty (every token of the expression out of
\* bounds or reversed, or a document of no page) sends no OCR request and
\* writes no Markdown, and ends as a failure: success false with an error from
\* pdf_to_markdown, a non-zero exit code from main.
C30_EmptyPageListFails ==
    page_numbers = <<>> =>
        /\ requests = 0
        /\ doc = NoDoc
        /\ pc = "finished" =>
              /\ ~outcome.success
              /\ IF fe = "mcp"
                 THEN outcome.keys = {"success", "error"} /\ outcome.error # ""
                 ELSE outcome.exit \notin {0, None}

\* the page expression of a document with pages left no page, and the run
\* ended at `first = page_numbers[0]`
C30_Witness ==
    /\ pc = "finished"
    /\ core = "patched"
    /\ total_pages >= 1
    /\ page_numbers = <<>>
    /\ outcome.at = "processor"
    /\ images_dir = TRUE

\* ------------------------------------------------------------------------
\* Properties of ocr_images_batch (checked under SpecBatch)
\* ------------------------------------------------------------------------
\* the call of ocr_image for the image in hand ends in this step
OcrCallEnds == bpc = "ocr" /\ bpc' # "ocr"

\* the entry the step has put at the position of the image in hand
EntryPut == Len(results') = bi /\ results' = Append(results, results'[bi])

AttemptMade == calls' = calls + 1

\* C28: whatever is raised while the request is sent or the answer read in
\* ocr_image, the empty answer included, leaves as a RateLimitError with
\* retry_after 5 when the message matches the rate-limit pattern (also when it
\* matches the auth pattern too), else as an APIError with status 401 when it
\* matches the auth pattern, else as a plain APIError; these three, and the
\* APIError of a missing image file, are retried up to the third attempt.
C28_ClassifiedAndRetried ==
    [][(AttemptMade /\ script'[calls'] \in {"rate_limited", "rate_and_auth", "auth",
                                            "api_error", "empty", "missing"}) =>
        LET ev == script'[calls']
            rate == ev \in {"rate_limited", "rate_and_auth"}
        IN  /\ calls' < 3 =>
                /\ rpc' = "sleep"
                /\ current_delay' = IF rate THEN 5 ELSE current_delay
            /\ calls' = 3 =>
                /\ rpc' = "raised"
                /\ exc'.id = 3
                /\ rate => /\ exc'.type = "RateLimitError"
                           /\ exc'.retry_after = 5
                /\ (~rate /\ ev = "auth") => /\ exc'.type = "APIError"
                                             /\ exc'.status_code = 401
                /\ (~rate /\ ev # "auth") => /\ exc'.type = "APIError"
                                             /\ exc'.status_code = None
                                             /\ exc'.retry_after = None]_vars

\* a message of both patterns waited 5, an auth failure waited 10, and the
\* third attempt, an empty answer, left as a plain APIError
C28_Witness ==
    /\ rpc = "raised"
    /\ script = <<"rate_and_auth", "auth", "empty">>
    /\ sleeps = <<5, 10>>
    /\ exc.type = "APIError" /\ exc.status_code = None

\* ------------------------------------------------------------------------
\* Properties of the retry wrapper (checked under SpecRetry)
\* ------------------------------------------------------------------------
Terminated == rpc \in {"returned", "raised"}

\* what the scripted function does on its k-th call
ScriptOutcome(k) == FuncDoes(script[k], k)

\* the k-th call raises an exception of the retry set
RetryableFailure(k) ==
    /\ ScriptOutcome(k).k = "raise"
    /\ IsInstance(ScriptOutcome(k).exc, exceptions)

\* the k-th call raises an exception outside the retry set
UnlistedFailure(k) ==
    /\ ScriptOutcome(k).k = "raise"
    /\ ~IsInstance(ScriptOutcome(k).exc, exceptions)

\* the k-th call raises a RateLimitError that carries a suggested wait
RateLimitedWithWait(k) ==
    /\ ScriptOutcome(k).k = "raise"
    /\ ScriptOutcome(k).exc.type = "RateLimitError"
    /\ ScriptOutcome(k).exc.retry_after \notin {None, 0}

\* the function raises retryable exceptions on its first n-1 calls and
\* returns on the n-th
FailsThenSucceeds(n) ==
    /\ n \in 1..Len(script)
    /\ \A k \in 1..(n - 1) : RetryableFailure(k)
    /\ script[n] = "ok"

AlwaysFails == \A k \in 1..Len(script) : RetryableFailure(k)

RECURSIVE Pow(_, _)
Pow(b, n) == IF n = 0 THEN 1 ELSE b * Pow(b, n - 1)

\* C4: a function that raises a retryable exception on its first N-1 calls and
\* then succeeds, wrapped with max_attempts = N >= 1, is called exactly N times
\* and the wrapper returns the success value; a function that succeeds on its
\* first call is called exactly once.
C4_FailsThenSucceeds ==
    /\ (Terminated /\ FailsThenSucceeds(max_attempts))
          => (rpc = "returned" /\ calls = max_attempts /\ ret = max_attempts)
    /\ (Terminated /\ max_attempts >= 1 /\ script[1] = "ok")
          => (rpc = "returned" /\ calls = 1 /\ ret = 1)

C4_Witness ==
    /\ rpc = "returned"
    /\ max_attempts >= 3
    /\ FailsThenSucceeds(max_attempts)
    /\ calls = max_attempts

\* C5: a function that always raises a retryable exception, wrapped with
\* max_attempts = M >= 1, is called exactly M times and then the wrapper raises
\* the exception of the M-th call itself (same class, attributes and message),
\* also with the decorator arguments of ocr_image.
C5_ExhaustedRaisesLast ==
    (Terminated /\ max_attempts >= 1 /\ AlwaysFails)
        => /\ rpc = "raised"
           /\ calls = max_attempts
           /\ exc = ScriptOutcome(max_attempts).exc

C5_Witness ==
    /\ rpc = "raised"
    /\ AlwaysFails
    /\ max_attempts = 3 /\ delay = 1 /\ backoff = 2
    /\ exceptions = {"APIError", "RateLimitError"}
    /\ calls = 3
    /\ exc.type = "RateLimitError" /\ exc.id = 3

\* C6: a call that raises an exception outside the retry set ends the wrapper
\* at once: no further call, no wait after it, and that very exception
\* propagates; when it is the first call, the function is called exactly once
\* and no wait is performed at all.
C6_UnlistedNotRetried ==
    \A k \in 1..calls :
        UnlistedFailure(k)
            => /\ calls = k
               /\ Len(sleeps) = k - 1
               /\ rpc = "raised"
               /\ exc = ScriptOutcome(k).exc

C6_Witness ==
    /\ max_attempts = 3
    /\ UnlistedFailure(1)
    /\ calls = 1
    /\ sleeps = <<>>
    /\ rpc = "raised"
    /\ exc.type = "ValueError"

\* C7: after a failed attempt that is not the last one, one wait is made before
\* the next attempt, and when the failure was a RateLimitError carrying a
\* suggested wait the wait is exactly that duration; every failed attempt
\* counts toward the cap, so there are never more than max_attempts calls.
C7_RateLimitWait ==
    /\ calls <= max_attempts
    /\ \A k \in 1..(calls - 1) :
          /\ Len(sleeps) >= k
          /\ RateLimitedWithWait(k) => sleeps[k] = ScriptOutcome(k).exc.retry_after

C7_Witness ==
    /\ Terminated
    /\ calls = max_attempts
    /\ max_attempts = 3 /\ delay = 1 /\ backoff = 2
    /\ \A k \in 1..3 : RateLimitedWithWait(k)
    /\ sleeps = <<5, 5>>

\* C8: as long as no failure was a RateLimitError carrying a wait, the wait
\* before the k-th retry is delay * backoff^(k-1); with the arguments of
\* ocr_image the waits are 1 then 2 and there are at most 3 calls.
C8_ExponentialBackoff ==
    /\ (\A k \in 1..calls : ~RateLimitedWithWait(k))
          => \A k \in 1..Len(sleeps) : sleeps[k] = delay * Pow(backoff, k - 1)
    /\ (/\ max_attempts = 3 /\ delay = 1 /\ backoff = 2
        /\ \A k \in 1..calls : ~RateLimitedWithWait(k))
          => (calls <= 3 /\ sleeps \in {<<>>, <<1>>, <<1, 2>>})

C8_Witness ==
    /\ Terminated
    /\ max_attempts = 3 /\ delay = 1 /\ backoff = 2
    /\ calls = 3
    /\ \A k \in 1..calls : ~RateLimitedWithWait(k)
    /\ sleeps = <<1, 2>>

\* the RuntimeError the wrapper raises below its loop
FallbackError == [type |-> "RuntimeError", retry_after |-> None, status_code |-> None, id |-> 0]

\* C26: with max_attempts >= 1 a wrapped call of c attempts makes exactly c-1
\* waits, one between each two consecutive attempts and none after the last,
\* whether the last returns or raises, and never raises the RuntimeError below
\* the loop; that error is raised, the function not called at all, when and
\* only when max_attempts <= 0.
C26_WaitsBetweenAttempts ==
    /\ [][calls' = calls + 1 => Len(sleeps) = calls]_vars
    /\ [][Len(sleeps') = Len(sleeps) + 1 => (Len(sleeps) = calls - 1 /\ ~Terminated')]_vars
    /\ []((Terminated /\ max_attempts >= 1) =>
            /\ calls >= 1
            /\ Len(sleeps) = calls - 1
            /\ exc # FallbackError)
    /\ []((Terminated /\ max_attempts <= 0) =>
            /\ rpc = "raised" /\ exc = FallbackError
            /\ calls = 0 /\ sleeps = <<>>)
    /\ []((Terminated /\ exc = FallbackError) => (max_attempts <= 0 /\ calls = 0))

\* three attempts, two waits, the third attempt raising
C26_Witness ==
    /\ rpc = "raised"
    /\ max_attempts = 3
    /\ calls = 3
    /\ Len(sleeps) = 2
    /\ exc.id = 3

\* C27: the wait taken from a RateLimitError replaces the running delay: the
\* failure waits retry_after and the running delay goes on from there, so a
\* following failure that is no rate limit waits retry_after * backoff (with
\* the arguments of ocr_image 5 then 10, not the 2 of the schedule from delay).
C27_OverrideReplacesDelay ==
    /\ \A k \in 1..(Len(sleeps) - 1) :
          (RateLimitedWithWait(k) /\ ~RateLimitedWithWait(k + 1)) =>
              /\ sleeps[k] = ScriptOutcome(k).exc.retry_after
              /\ sleeps[k + 1] = ScriptOutcome(k).exc.retry_after * backoff
    /\ (/\ max_attempts = 3 /\ delay = 1 /\ backoff = 2 /\ Len(sleeps) = 2
        /\ RateLimitedWithWait(1) /\ ~RateLimitedWithWait(2)) => sleeps = <<5, 10>>

\* ocr_image's arguments: a rate limit, then a plain APIError, then the end
C27_Witness ==
    /\ Terminated
    /\ max_attempts = 3 /\ delay = 1 /\ backoff = 2
    /\ script[1] = "RateLimit5" /\ script[2] = "APIError"
    /\ calls = 3
    /\ sleeps = <<5, 10>>

\* ------------------------------------------------------------------------
\* Properties of parse_page_range (checked under SpecParse)
\* ------------------------------------------------------------------------
\* The page-range expressions of the interface, read character by character:
\* items separated by commas, an item being an integer or two integers joined
\* by a hyphen, blanks allowed around each integer.  Expand gives whether the
\* text is such an expression and the set of pages it denotes (a..b for a
\* range, empty when a > b).  st: where in an item the reader is.
RECURSIVE Expand(_, _, _, _, _)
Expand(s, st, a, b, acc) ==
    LET item == IF st \in {"inA", "postA"} THEN {a} ELSE a..b
        closed == st \in {"inA", "postA", "inB", "postB"}
    IN
    IF s = <<>>
    THEN [valid |-> closed, pages |-> IF closed THEN acc \cup item ELSE {}]
    ELSE LET c == Head(s)
             r == Tail(s)
             bad == [valid |-> FALSE, pages |-> {}]
         IN  CASE c = " " ->
                    Expand(r, CASE st = "inA" -> "postA" [] st = "inB" -> "postB" [] OTHER -> st,
                           a, b, acc)
               [] c = "," ->
                    IF closed THEN Expand(r, "pre", 0, 0, acc \cup item) ELSE bad
               [] c = "-" ->
                    IF st \in {"inA", "postA"} THEN Expand(r, "preB", a, 0, acc) ELSE bad
               [] OTHER ->
                    CASE st = "pre" -> Expand(r, "inA", DigitVal(c), 0, acc)
                      [] st = "inA" -> Expand(r, "inA", 10 * a + DigitVal(c), 0, acc)
                      [] st = "preB" -> Expand(r, "inB", a, DigitVal(c), acc)
                      [] st = "inB" -> Expand(r, "inB", a, 10 * b + DigitVal(c), acc)
                      [] OTHER -> bad

Expansion(s) == Expand(s, "pre", 0, 0, {})

Ascending(l) == \A i \in 1..(Len(l) - 1) : l[i] < l[i + 1]

\* the call was made with the expression and the page count only
\* (--first-page and --last-page not both given)
ByExpression == ~(pfn = "cli" /\ first_page # None /\ last_page # None)

\* C9: called with an expression and a page count, parse_page_range of either
\* front end returns, for every well-formed expression, the ascending
\* duplicate-free list of exactly the denoted pages within 1..total (without
\* raising), and [1..total] for an absent or empty expression.
C9_ParsePageRange ==
    (ppc = "done" /\ ByExpression)
        => /\ pages_str \in {NoStr, <<>>}
                => (perr = "none" /\ page_numbers = [i \in 1..total_pages |-> i])
           /\ (pages_str \notin {NoStr, <<>>} /\ Expansion(pages_str).valid)
                => /\ perr = "none"
                   /\ Ascending(page_numbers)
                   /\ Elems(page_numbers) =
                        { q \in Expansion(pages_str).pages : 1 <= q /\ q <= total_pages }

\* "3,1-3" on a 2-page document: duplicates and the out-of-range page dropped
C9_Witness ==
    /\ ppc = "done"
    /\ pfn = "cli"
    /\ ByExpression
    /\ pages_str = <<"3", ",", "1", "-", "3">>
    /\ total_pages = 2
    /\ page_numbers = <<1, 2>>

\* ------------------------------------------------------------------------
\* Properties of extract_and_save_images (checked under SpecImg)
\* ------------------------------------------------------------------------
\* how many of the first k matches were saved
RECURSIVE SavedAmong(_)
SavedAmong(k) ==
    IF k = 0 THEN 0 ELSE SavedAmong(k - 1) + (IF savedFlags[k] THEN 1 ELSE 0)

\* the original text from the end of match k-1 (or the start) up to the start
\* of match k, and from the last match to the end
Gap(k) ==
    SubSeq(markdown, (IF k = 1 THEN 0 ELSE matches[k - 1].end) + 1,
           IF k > Len(matches) THEN Len(markdown) ELSE matches[k].start)

\* what stands for match k in the result when the first n matches are handled:
\* the reference to the file saved for it, with the alt text of the match, or
\* the characters of its span
Piece(k, n) ==
    IF k <= n /\ savedFlags[k]
    THEN <<"!", "[">> \o matches[k].alt \o <<"]", "(", "i", "m", "a", "g", "e", "s", "/">>
         \o saved_images[SavedAmong(k)] \o <<")">>
    ELSE SubSeq(markdown, matches[k].start + 1, matches[k].end)

RECURSIVE Rebuilt(_, _)
Rebuilt(k, n) ==
    IF k > Len(matches) THEN Gap(k)
    ELSE Gap(k) \o Piece(k, n) \o Rebuilt(k + 1, n)

\* C10: the text returned is the original with the span of each saved match
\* replaced by '![<alt>](images/<filename>)' and every other character,
\* failed matches included, unchanged and in order (and so it is after each
\* match handled).
C10_ReplacedAtSpans ==
    ipc \in {"loop", "returned"} => processed_markdown = Rebuilt(1, mi)

\* three matches, the middle one failing, the two replacements of different
\* lengths
C10_Witness ==
    /\ ipc = "returned"
    /\ Len(matches) = 3
    /\ savedFlags = <<TRUE, FALSE, TRUE>>
    /\ Len(saved_images) = 2
    /\ matches[1].end - matches[1].start # matches[3].end - matches[3].start
    /\ offset < 0
    /\ processed_markdown # markdown

\* C11: within one page the image counter is advanced by saved images only: a
\* match whose decoding or writing fails takes no index and the loop goes on,
\* so the images saved so far are page_<p>_img_1 .. page_<p>_img_k in the
\* order of their matches, each with the format and payload of its match, and
\* the list returned has k entries, k the number of matches saved.
C11_ConsecutiveImageNumbers ==
    ipc \in {"loop", "returned"} =>
        /\ Len(savedFlags) = mi
        /\ Len(saved_images) = SavedAmong(mi)
        /\ \A k \in 1..mi :
              savedFlags[k] =>
                 /\ saved_images[SavedAmong(k)] =
                       <<"p", "a", "g", "e", "_">> \o Str(page_num) \o <<"_", "i", "m", "g", "_">>
                       \o Str(SavedAmong(k)) \o <<".">> \o matches[k].fmt
                 /\ saved_images[SavedAmong(k)] \in DOMAIN files
                 /\ files[saved_images[SavedAmong(k)]] = matches[k].data
        /\ DOMAIN files = { saved_images[j] : j \in 1..Len(saved_images) }

\* three matches, the first failing: the second and third are images 1 and 2
C11_Witness ==
    /\ ipc = "returned"
    /\ Len(matches) = 3
    /\ savedFlags = <<FALSE, TRUE, TRUE>>
    /\ Len(saved_images) = 2

C20_KeysArePageNumbers ==
    xpc = "extracted" =>
        /\ \A k \in DOMAIN all_images :
              /\ k \in 1..pdf_len
              /\ all_images[k] # <<>>
              /\ \A i \in 1..Len(all_images[k]) :
                    /\ all_images[k][i] \in DOMAIN img_files
                    /\ img_files[all_images[k][i]] = [kind |-> "embedded", page |-> k]
        /\ (img_files = <<>> => all_images = <<>>)

\* ------------------------------------------------------------------------
\* Properties of _build_markdown (checked under SpecBuild)
\* ------------------------------------------------------------------------
\* the number of lines before the first section: the title and a blank, and
\* with (non-empty) metadata the quoted lines, a blank, a rule and a blank
HeaderLength ==
    IF md_metadata = NoMetadata \/ DOMAIN md_metadata = {} THEN 2
    ELSE 2 + 1 + (IF "source" \in DOMAIN md_metadata THEN 1 ELSE 0)
         + (IF "page_count" \in DOMAIN md_metadata THEN 1 ELSE 0) + 4

KindAt(n) == md_lines[n].kind

\* C13: for K page results the text is the title line, the metadata block and
\* a rule exactly when there is metadata, then K sections in input order, the
\* i-th being the heading of number i, a rule, the body of the i-th result and
\* a rule, and last the closing comment; nothing else.
C13_DocumentLayout ==
    mdpc = "returned" =>
        LET K == Len(md_results)
            h == HeaderLength
        IN  /\ Len(md_lines) = h + 8 * K + 1
            /\ KindAt(1) = "title" /\ KindAt(2) = "blank"
            /\ (h > 2) =>
                  /\ KindAt(3) = "generator"
                  /\ \A n \in 4..(h - 4) : KindAt(n) \in {"source", "page_count"}
                  /\ ("source" \in DOMAIN md_metadata =>
                         md_lines[4] = [kind |-> "source", value |-> "a.pdf"])
                  /\ ("page_count" \in DOMAIN md_metadata =>
                         md_lines[h - 4] =
                            [kind |-> "page_count", value |-> md_metadata["page_count"]])
                  /\ md_lines[h - 3] = [kind |-> "time", value |-> md_now]
                  /\ KindAt(h - 2) = "blank" /\ KindAt(h - 1) = "rule" /\ KindAt(h) = "blank"
            /\ \A i \in 1..K :
                  LET b == h + 8 * (i - 1)
                  IN  /\ md_lines[b + 1] = [kind |-> "heading", value |-> i]
                      /\ KindAt(b + 2) = "blank" /\ KindAt(b + 3) = "rule"
                      /\ KindAt(b + 4) = "blank"
                      /\ md_lines[b + 5] = [kind |-> "body", value |-> md_results[i]]
                      /\ KindAt(b + 6) = "blank" /\ KindAt(b + 7) = "rule"
                      /\ KindAt(b + 8) = "blank"
            /\ KindAt(h + 8 * K + 1) = "end"

\* three different page results under a full metadata block
C13_Witness ==
    /\ mdpc = "returned"
    /\ Len(md_results) = 3
    /\ md_results[1] # md_results[2] /\ md_results[2] # md_results[3]
    /\ md_metadata # NoMetadata
    /\ DOMAIN md_metadata = {"source", "page_count"}
    /\ Len(md_lines) = 34

\* ------------------------------------------------------------------------
\* Properties of PromptTemplate (checked under SpecPrompt)
\* ------------------------------------------------------------------------
\* C19: building the prompt for a mode string that is none of the five modes
\* never raises and gives the base trigger phrase followed by the string, in
\* get_prompt (the method the front ends call with their mode string) as in
\* from_config.
C19_UnknownModeIsFreeForm ==
    (/\ prompt_end.k \in {"return", "raise"}
     /\ Lower(prompt_mode) \notin {"document", "academic", "table", "formula", "mixed"}) =>
        /\ prompt_end.k = "return"
        /\ prompt_end.value = <<"qwenvl markdown", "\n\n", prompt_mode>>

====
